---- MODULE Spec2Model ----
(***************************************************************************)
(* KPlanIQ: census data validation, quality scoring and issue fixing.      *)
(*                                                                         *)
(* The module models                                                       *)
(*   - DataValidationEngine._calculate_data_quality_score                  *)
(*     (backend/app/services/validation_engine.py),                        *)
(*   - IssueFixEngine and BulkFixEngine                                    *)
(*     (backend/app/services/fix_engine.py),                               *)
(*   - the fix routes (backend/app/routers/fix_issue_routes.py).           *)
(*                                                                         *)
(* Python strings that the code inspects character by character (SSNs,     *)
(* compensation amounts) are sequences of one-character strings.           *)
(***************************************************************************)
EXTENDS Integers, Sequences, FiniteSets, TLC

VARIABLES
    validation_issues,   \* DataValidationEngine.validation_issues
    data_quality_score,  \* DataValidationEngine.data_quality_score
    phase,               \* position of the validation run: "init" | "scored"
    issues,              \* validation_results rows of the file, by id
    file,                \* the table stored at file_upload.file_path
    df,                  \* IssueFixEngine.df of the engine of the last request
    last,                \* the last operation and what it returned
    fix_history,         \* rows of the fix_history table (FixHistory)
    background_tasks,    \* the background tasks added and not yet run
    quality_score,       \* the data_quality_scores row of the file
    engines,             \* the request each server worker is handling
    fix_request          \* the fix_data of the request to validate

vars == <<validation_issues, data_quality_score, phase,
          issues, file, df, last, fix_history, background_tasks, quality_score,
          engines, fix_request>>

scoreVars == <<validation_issues, data_quality_score, phase>>
fixVars == <<issues, file, df, last, fix_history>>
taskVars == <<background_tasks, quality_score>>

None == [kind |-> "none"]

(***************************************************************************)
(* Quality scorer                                                          *)
(***************************************************************************)

IssueTypes == {"critical", "warning", "info"}
Severities == {"high", "medium", "low"}

\* The (issue_type, severity) part of a ValidationIssue, all the scorer reads.
IssuePairs == [issue_type : IssueTypes, severity : Severities]

\* Longest free-form list of issues handed to the scorer.
MaxIssues == 2
\* Most copies of one issue added to such a list (one per field or column).
MaxRepeat == 6

\* A mutant of Deduction: info issues cost nothing.
DeductionInfoFree(issue) ==
    IF issue.issue_type = "critical"
    THEN IF issue.severity = "high" THEN 15
         ELSE IF issue.severity = "medium" THEN 10
         ELSE 5
    ELSE IF issue.issue_type = "warning"
    THEN IF issue.severity = "high" THEN 8
         ELSE IF issue.severity = "medium" THEN 5
         ELSE 2
    ELSE 0

\* The body of the loop of _calculate_data_quality_score: what one issue costs.
Deduction(issue) ==
    IF issue.issue_type = "critical"
    THEN IF issue.severity = "high" THEN 15
         ELSE IF issue.severity = "medium" THEN 10
         ELSE 5
    ELSE IF issue.issue_type = "warning"
    THEN IF issue.severity = "high" THEN 8
         ELSE IF issue.severity = "medium" THEN 5
         ELSE 2
    ELSE IF issue.issue_type = "info"
    THEN 1
    ELSE 0

\* score after the loop has run over issue_list, starting from score.
RECURSIVE ScoreLoop(_, _)
ScoreLoop(score, issue_list) ==
    IF issue_list = <<>>
    THEN score
    ELSE ScoreLoop(score - Deduction(Head(issue_list)), Tail(issue_list))

Max(a, b) == IF a >= b THEN a ELSE b

\* A mutant of CalculateDataQualityScore: the final max(0.0, score) is missing.
CalculateDataQualityScoreNoClamp(issue_list) == ScoreLoop(100, issue_list)

\* _calculate_data_quality_score: the value stored in data_quality_score.
CalculateDataQualityScore(issue_list) == Max(0, ScoreLoop(100, issue_list))

RECURSIVE SeqsUpTo(_, _)
SeqsUpTo(S, n) ==
    IF n = 0
    THEN {<<>>}
    ELSE LET shorter == SeqsUpTo(S, n - 1)
         IN  shorter \cup {Append(s, x) : s \in shorter, x \in S}

RECURSIVE Repeat(_, _)
Repeat(x, n) == IF n = 0 THEN <<>> ELSE <<x>> \o Repeat(x, n - 1)

\* The issue lists the scorer is run on: any short list, followed by up to
\* MaxRepeat copies of one issue.
ScoreInputs ==
    {s \o Repeat(p, k) : s \in SeqsUpTo(IssuePairs, MaxIssues),
                         p \in IssuePairs, k \in 0..MaxRepeat}

\* DataValidationEngine.__init__, with the issues the detectors then append.
EngineInit ==
    /\ validation_issues \in ScoreInputs
    /\ data_quality_score = 100
    /\ phase = "init"

\* run_comprehensive_validation line 106: the score of the issues found.
CalculateScore ==
    /\ phase = "init"
    /\ data_quality_score' = CalculateDataQualityScore(validation_issues)
    /\ phase' = "scored"
    /\ UNCHANGED <<validation_issues, fixVars, taskVars, engines, fix_request>>

ScoreNext == CalculateScore

(***************************************************************************)
(* Strings                                                                 *)
(***************************************************************************)

Digits == {"0", "1", "2", "3", "4", "5", "6", "7", "8", "9"}

\* re's \s on the characters used here.
Whitespace == {" ", "\n"}

DigitValue(c) ==
    CASE c = "0" -> 0 [] c = "1" -> 1 [] c = "2" -> 2 [] c = "3" -> 3
      [] c = "4" -> 4 [] c = "5" -> 5 [] c = "6" -> 6 [] c = "7" -> 7
      [] c = "8" -> 8 [] c = "9" -> 9

DigitChar(d) ==
    CASE d = 0 -> "0" [] d = 1 -> "1" [] d = 2 -> "2" [] d = 3 -> "3"
      [] d = 4 -> "4" [] d = 5 -> "5" [] d = 6 -> "6" [] d = 7 -> "7"
      [] d = 8 -> "8" [] d = 9 -> "9"

\* s without the characters of the set chars: re.sub(r'[...]', '', s) and
\* str.replace(c, '') for one character.
RECURSIVE RemoveChars(_, _)
RemoveChars(s, chars) ==
    IF s = <<>>
    THEN <<>>
    ELSE IF Head(s) \in chars
         THEN RemoveChars(Tail(s), chars)
         ELSE <<Head(s)>> \o RemoveChars(Tail(s), chars)

\* s.replace(', ', ''): every occurrence of comma-space removed, left to right.
RECURSIVE RemoveCommaSpace(_)
RemoveCommaSpace(s) ==
    IF Len(s) < 2
    THEN s
    ELSE IF s[1] = "," /\ s[2] = " "
         THEN RemoveCommaSpace(SubSeq(s, 3, Len(s)))
         ELSE <<Head(s)>> \o RemoveCommaSpace(Tail(s))

AllDigits(s) == \A i \in 1..Len(s) : s[i] \in Digits

\* str.strip(), as float() does to its argument.
RECURSIVE StripLeft(_)
StripLeft(s) ==
    IF s # <<>> /\ Head(s) \in Whitespace THEN StripLeft(Tail(s)) ELSE s

RECURSIVE StripRight(_)
StripRight(s) ==
    IF s # <<>> /\ s[Len(s)] \in Whitespace
    THEN StripRight(SubSeq(s, 1, Len(s) - 1))
    ELSE s

Strip(s) == StripRight(StripLeft(s))

RECURSIVE DigitsValue(_)
DigitsValue(s) ==
    IF s = <<>>
    THEN 0
    ELSE 10 * DigitsValue(SubSeq(s, 1, Len(s) - 1)) + DigitValue(s[Len(s)])

RECURSIVE NatToChars(_)
NatToChars(n) ==
    IF n < 10
    THEN <<DigitChar(n)>>
    ELSE NatToChars(n \div 10) \o <<DigitChar(n % 10)>>

\* str(x) of a float x that holds a whole number: "50000.0", "-5.0".
FloatToChars(n) ==
    (IF n < 0 THEN <<"-">> \o NatToChars(0 - n) ELSE NatToChars(n))
        \o <<".", "0">>

\* Index of the first "." of s, 0 if there is none.
RECURSIVE DotIndex(_, _)
DotIndex(s, i) ==
    IF i > Len(s) THEN 0 ELSE IF s[i] = "." THEN i ELSE DotIndex(s, i + 1)

\* float's reading of digits with an optional fraction of zeros.
ParseUnsignedAt(body, dot) ==
    IF dot = 0
    THEN [ok |-> body # <<>> /\ AllDigits(body),
          value |-> IF body # <<>> /\ AllDigits(body) THEN DigitsValue(body) ELSE 0]
    ELSE IF /\ AllDigits(SubSeq(body, 1, dot - 1))
            /\ \A i \in (dot + 1)..Len(body) : body[i] = "0"
            /\ Len(body) > 1
    THEN [ok |-> TRUE, value |-> DigitsValue(SubSeq(body, 1, dot - 1))]
    ELSE [ok |-> FALSE, value |-> 0]

Negated(r) == [ok |-> r.ok, value |-> 0 - r.value]

ParseStripped(t) ==
    IF t # <<>> /\ Head(t) = "-"
    THEN Negated(ParseUnsignedAt(Tail(t), DotIndex(Tail(t), 1)))
    ELSE IF t # <<>> /\ Head(t) = "+"
    THEN ParseUnsignedAt(Tail(t), DotIndex(Tail(t), 1))
    ELSE ParseUnsignedAt(t, DotIndex(t, 1))

\* float(s) on the strings of this model: optional surrounding whitespace,
\* an optional sign, digits, and an optional fraction of zeros.  Anything
\* else raises ValueError (ok = FALSE).  The value is in whole units.
ParseFloat(s) == ParseStripped(Strip(s))

\* A mutant of StandardizeSsn: the nine digits are returned without hyphens.
StandardizeSsnNoDashes(ssn_str) ==
    LET digits == RemoveChars(ssn_str, {c \in {ssn_str[i] : i \in 1..Len(ssn_str)} :
                                          c \notin Digits})
    IN  IF Len(digits) = 9
        THEN [ok |-> TRUE, value |-> digits]
        ELSE [ok |-> FALSE, value |-> <<>>]

\* _standardize_ssn: ok = FALSE stands for the None it returns.
StandardizeSsn(ssn_str) ==
    LET digits == RemoveChars(ssn_str, {c \in {ssn_str[i] : i \in 1..Len(ssn_str)} :
                                          c \notin Digits})
    IN  IF Len(digits) = 9
        THEN [ok |-> TRUE,
              value |-> SubSeq(digits, 1, 3) \o <<"-">> \o SubSeq(digits, 4, 5)
                            \o <<"-">> \o SubSeq(digits, 6, Len(digits))]
        ELSE [ok |-> FALSE, value |-> <<>>]

\* _clean_numeric: ok = FALSE stands for the None it returns.
CleanNumeric(value_str) ==
    ParseFloat(RemoveChars(value_str, {"$", ",", "%"} \cup Whitespace))

\* re.match(r'^\d{3}-\d{2}-\d{4}$', ssn): "$" also matches before one final
\* newline.
MatchesSsnPattern(ssn) ==
    LET core == IF Len(ssn) = 12 /\ ssn[12] = "\n" THEN SubSeq(ssn, 1, 11) ELSE ssn
    IN  /\ Len(core) = 11
        /\ \A i \in {1, 2, 3, 5, 6, 8, 9, 10, 11} : core[i] \in Digits
        /\ core[4] = "-"
        /\ core[7] = "-"

\* _is_valid_ssn
IsValidSsn(ssn) ==
    /\ MatchesSsnPattern(ssn)
    /\ LET digits == RemoveChars(ssn, {"-"})
       IN  /\ digits # <<"0", "0", "0", "0", "0", "0", "0", "0", "0">>
           /\ digits # <<"9", "9", "9", "9", "9", "9", "9", "9", "9">>

(***************************************************************************)
(* Dates                                                                   *)
(***************************************************************************)

MonthNames ==
    <<<<"J", "a", "n", "u", "a", "r", "y">>,
      <<"F", "e", "b", "r", "u", "a", "r", "y">>,
      <<"M", "a", "r", "c", "h">>,
      <<"A", "p", "r", "i", "l">>,
      <<"M", "a", "y">>,
      <<"J", "u", "n", "e">>,
      <<"J", "u", "l", "y">>,
      <<"A", "u", "g", "u", "s", "t">>,
      <<"S", "e", "p", "t", "e", "m", "b", "e", "r">>,
      <<"O", "c", "t", "o", "b", "e", "r">>,
      <<"N", "o", "v", "e", "m", "b", "e", "r">>,
      <<"D", "e", "c", "e", "m", "b", "e", "r">>>>

IsLeap(y) == (y % 4 = 0 /\ y % 100 # 0) \/ y % 400 = 0

DaysInMonth(y, m) ==
    IF m = 2 THEN (IF IsLeap(y) THEN 29 ELSE 28)
    ELSE IF m \in {4, 6, 9, 11} THEN 30 ELSE 31

ValidDate(y, m, d) == m \in 1..12 /\ d >= 1 /\ d <= DaysInMonth(y, m)

NoDate == [ok |-> FALSE, y |-> 0, m |-> 0, d |-> 0]

MakeDate(y, m, d) ==
    IF ValidDate(y, m, d) THEN [ok |-> TRUE, y |-> y, m |-> m, d |-> d] ELSE NoDate

OrElse(a, b) == IF a.ok THEN a ELSE b

\* The fields of s between the separator characters seps.
RECURSIVE Fields(_, _)
Fields(s, seps) ==
    IF s = <<>>
    THEN <<<<>>>>
    ELSE IF Head(s) \in seps
    THEN <<<<>>>> \o Fields(Tail(s), seps)
    ELSE LET rest == Fields(Tail(s), seps)
         IN  <<<<Head(s)>> \o rest[1]>> \o Tail(rest)

RECURSIVE NonEmpty(_)
NonEmpty(fields) ==
    IF fields = <<>> THEN <<>>
    ELSE IF Head(fields) = <<>> THEN NonEmpty(Tail(fields))
    ELSE <<Head(fields)>> \o NonEmpty(Tail(fields))

\* Three numbers read as a date: year first when the first has four digits,
\* else month first, and day first when the first number is no month.
DateOfNumbers(len1, len3, a, b, c) ==
    IF len1 = 4 /\ len3 <= 2
    THEN MakeDate(a, b, c)
    ELSE IF len1 <= 2 /\ len3 = 4
    THEN OrElse(MakeDate(c, a, b), MakeDate(c, b, a))
    ELSE NoDate

\* number SEP number SEP number, SEP "/" or "-".
NumericDate(parts) ==
    IF /\ Len(parts) = 3
       /\ \A i \in 1..3 : parts[i] # <<>> /\ AllDigits(parts[i])
       /\ Len(parts[2]) <= 2
    THEN DateOfNumbers(Len(parts[1]), Len(parts[3]), DigitsValue(parts[1]),
                       DigitsValue(parts[2]), DigitsValue(parts[3]))
    ELSE NoDate

\* The number of the month called name, 0 if there is none.
MonthNumber(name) ==
    IF \E m \in 1..12 : MonthNames[m] = name
    THEN CHOOSE m \in 1..12 : MonthNames[m] = name
    ELSE 0

\* "Month D, YYYY", the comma optional: words are the parts between spaces.
MonthNameDate(words) ==
    IF /\ Len(words) = 3
       /\ Len(words[3]) = 4 /\ AllDigits(words[3])
       /\ RemoveChars(words[2], {","}) # <<>>
       /\ Len(RemoveChars(words[2], {","})) <= 2
       /\ AllDigits(RemoveChars(words[2], {","}))
       /\ words[2] \in {RemoveChars(words[2], {","}),
                        RemoveChars(words[2], {","}) \o <<",">>}
    THEN MakeDate(DigitsValue(words[3]), MonthNumber(words[1]),
                  DigitsValue(RemoveChars(words[2], {","})))
    ELSE NoDate

ToDatetimeStripped(s) ==
    OrElse(NumericDate(Fields(s, {"/", "-"})),
           MonthNameDate(NonEmpty(Fields(s, {" "}))))

\* pd.to_datetime(date_str, errors='coerce') on the date forms of this model:
\* YYYY-MM-DD and YYYY/MM/DD, MM/DD/YYYY and MM-DD-YYYY (read day first when
\* the first number is no month), and "Month D, YYYY".  ok = FALSE is NaT.
ToDatetime(date_str) == ToDatetimeStripped(Strip(date_str))

TwoDigits(n) == <<DigitChar(n \div 10), DigitChar(n % 10)>>

FourDigits(n) ==
    <<DigitChar(n \div 1000), DigitChar((n \div 100) % 10),
      DigitChar((n \div 10) % 10), DigitChar(n % 10)>>

\* parsed_date.strftime('%m/%d/%Y')
StrftimeMDY(date) ==
    TwoDigits(date.m) \o <<"/">> \o TwoDigits(date.d) \o <<"/">> \o FourDigits(date.y)

FormattedDate(parsed) ==
    IF parsed.ok
    THEN [ok |-> TRUE, value |-> StrftimeMDY(parsed)]
    ELSE [ok |-> FALSE, value |-> <<>>]

\* _standardize_date.  Every string ToDatetime reads contains a match of one
\* of the five patterns, so the result is the parsed date re-emitted as
\* MM/DD/YYYY; ok = FALSE stands for None.
StandardizeDate(date_str) == FormattedDate(ToDatetime(date_str))

(***************************************************************************)
(* The table (pandas DataFrame)                                            *)
(***************************************************************************)

\* Cells: NaN, a str, a float holding a whole number, a bool.
Null == [kind |-> "null", v |-> <<>>]
Str(s) == [kind |-> "str", v |-> s]
Num(n) == [kind |-> "num", v |-> <<n>>]
Bool(b) == [kind |-> "bool", v |-> <<b>>]

\* pd.isna(cell)
IsNa(cell) == cell.kind = "null"

\* str(cell) of a cell that is not NaN.
StrOf(cell) ==
    IF cell.kind = "str" THEN cell.v
    ELSE IF cell.kind = "num" THEN FloatToChars(cell.v[1])
    ELSE IF cell.v[1] THEN <<"T", "r", "u", "e">>
    ELSE <<"F", "a", "l", "s", "e">>

\* A table is [columns |-> the column names,
\*             data |-> [0..n-1 -> [columns -> cell]]].
LenDf(t) == Cardinality(DOMAIN t.data)

\* The entries of a list.
Range(seq) == {seq[k] : k \in 1..Len(seq)}

\* A table of no rows and no columns.
EmptyTable == [columns |-> {}, data |-> <<>>]

\* df.at[row, col] = value
SetCell(t, row, col, value) == [t EXCEPT !.data[row][col] = value]

\* df[col] = value for a column that does not exist yet.
AddColumn(t, col, value) ==
    [columns |-> t.columns \cup {col},
     data |-> [r \in DOMAIN t.data |->
                 [c \in t.columns \cup {col} |->
                     IF c = col THEN value ELSE t.data[r][c]]]]

\* An entry of affected_rows that is no integer (a JSON null or string):
\* comparing it with len(self.df) raises TypeError.
NotARow == -1

DateColumns == <<"DOB", "DOH", "DOT", "HireDate", "TermDate", "DateOfBirth">>
SsnColumns == <<"SSN", "SocialSecurityNumber", "EmpSSN">>
NumericColumns ==
    <<"PriorYearComp", "Compensation", "Salary", "EmployeeDeferrals", "EmployerMatch">>
CompColumns == <<"PriorYearComp", "Compensation", "Salary">>

StrResult(r) == [ok |-> r.ok, cell |-> Str(r.value)]
NumResult(r) == [ok |-> r.ok, cell |-> Num(r.value)]

\* What one of the three format fixers makes of a cell: [ok, cell], ok = FALSE
\* when the standardizer returns None.
Standardized(kind, original) ==
    IF kind = "date" THEN StrResult(StandardizeDate(StrOf(original)))
    ELSE IF kind = "ssn" THEN StrResult(StandardizeSsn(StrOf(original)))
    ELSE NumResult(CleanNumeric(StrOf(original)))

\* The state of a fixer's loop: the engine's table, the changes recorded so
\* far, and err, the name of the exception that ended the loop ("" for none).
Loop(t, results, err) == [df |-> t, results |-> results, err |-> err]

Raised(acc, err) == Loop(acc.df, acc.results, err)

\* if fixed_value and fixed_value != original_value: write it, record it.
CellFixed(acc, row, col, fixed) ==
    IF fixed.ok /\ fixed.cell # acc.df.data[row][col]
    THEN Loop(SetCell(acc.df, row, col, fixed.cell),
              Append(acc.results, [row |-> row, column |-> col,
                                   original |-> StrOf(acc.df.data[row][col]),
                                   fixed |-> StrOf(fixed.cell)]),
              "")
    ELSE acc

\* The inner loop of _fix_date_formats, _fix_ssn_formats and
\* _fix_numeric_formats: the columns cols of one row.
RECURSIVE FixColumnsOfRow(_, _, _, _)
FixColumnsOfRow(kind, acc, row, cols) ==
    IF cols = <<>>
    THEN acc
    ELSE IF Head(cols) \notin acc.df.columns \/ IsNa(acc.df.data[row][Head(cols)])
    THEN FixColumnsOfRow(kind, acc, row, Tail(cols))
    ELSE FixColumnsOfRow(kind,
             CellFixed(acc, row, Head(cols),
                       Standardized(kind, acc.df.data[row][Head(cols)])),
             row, Tail(cols))

\* The outer loop of the three format fixers over affected_rows.  When it
\* raises, df and results are what had been written so far.
RECURSIVE FixRows(_, _, _, _)
FixRows(kind, acc, rows, cols) ==
    IF rows = <<>>
    THEN acc
    ELSE IF Head(rows) = NotARow
    THEN Raised(acc, "TypeError")
    ELSE IF Head(rows) >= LenDf(acc.df)
    THEN FixRows(kind, acc, Tail(rows), cols)
    ELSE FixRows(kind, FixColumnsOfRow(kind, acc, Head(rows), cols), Tail(rows), cols)

\* _fix_date_formats
FixDateFormats(t, affected_rows) ==
    FixRows("date", Loop(t, <<>>, ""), affected_rows, DateColumns)

\* _fix_ssn_formats
FixSsnFormats(t, affected_rows) ==
    FixRows("ssn", Loop(t, <<>>, ""), affected_rows, SsnColumns)

\* _fix_numeric_formats
FixNumericFormats(t, affected_rows) ==
    FixRows("numeric", Loop(t, <<>>, ""), affected_rows, NumericColumns)

(***************************************************************************)
(* IssueFixEngine                                                          *)
(***************************************************************************)

\* word in title.lower(), for the titles of this model.
TitleHas(title, word) ==
    CASE word = "date" ->
             title \in {"Invalid Date Format in DOB", "Invalid Date Format in DOH",
                        "Invalid Date Format in DOT",
                        "Termination Date Before Hire Date"}
      [] word = "ssn" ->
             title \in {"Invalid SSN Format", "Missing Values in SSN",
                        "Missing Required Field: SSN"}
      [] word = "numeric" ->
             title \in {"Invalid Numeric Format in PriorYearComp",
                        "Invalid Numeric Format in HoursWorked"}
      [] word = "compensation" ->
             title \in {"Unusual Compensation Amounts",
                        "Statistical Compensation Outliers"}

\* What an engine method leaves behind: the engine's table, the stored table,
\* the exception raised ("" for none) and the value returned.
\* file_saved records whether the method wrote the file on its way.
Outcome(t, f, err, result) ==
    [df |-> t, file |-> f, err |-> err, result |-> result, file_saved |-> FALSE]

\* _save_dataframe: the file at file_path after to_csv / to_excel of self.df.
SaveDataframe(t, f) == t

\* What a method leaves that ends with await self._save_dataframe() and
\* returns result.
SavedOutcome(t, f, result) ==
    [df |-> t, file |-> SaveDataframe(t, f), err |-> "", result |-> result,
     file_saved |-> TRUE]

\* json.loads(issue.details) if issue.details else {}: does it raise?
\* details is "none" (None or an empty dict), "dict" (a non-empty dict, as the
\* JSON column returns it) or "json" (a str holding JSON).
DetailsRaise(issue) == issue.details = "dict"

\* The branch of _apply_auto_fix taken for the issue: the fixer's outcome.
AutoFixDispatch(t, issue) ==
    IF issue.category = "Format Error"
    THEN IF TitleHas(issue.title, "date")
         THEN FixDateFormats(t, issue.affected_rows)
         ELSE IF TitleHas(issue.title, "ssn")
         THEN FixSsnFormats(t, issue.affected_rows)
         ELSE IF TitleHas(issue.title, "numeric")
         THEN FixNumericFormats(t, issue.affected_rows)
         ELSE Loop(t, <<>>, "")
    ELSE IF issue.category = "Missing Data" /\ issue.title = "Missing Required Fields"
    THEN \* self._fix_missing_required_fields does not exist
         Loop(t, <<>>, "AttributeError")
    ELSE Loop(t, <<>>, "")

\* The end of _apply_auto_fix: the exception goes up, or the table is saved
\* and the result returned.
AutoFixed(fixed, f, issue) ==
    IF fixed.err # ""
    THEN Outcome(fixed.df, f, fixed.err, None)
    ELSE SavedOutcome(fixed.df, f,
                 [action |-> "auto_fix",
                  affected_rows |-> Len(issue.affected_rows),
                  changes_applied |-> Len(fixed.results),
                  details |-> fixed.results])

\* A mutant of ApplyAutoFix: the auto_fixable check is missing.
ApplyAutoFixUnchecked(t, f, issue) ==
    IF DetailsRaise(issue)
    THEN Outcome(t, f, "TypeError", None)
    ELSE AutoFixed(AutoFixDispatch(t, issue), f, issue)

\* _apply_auto_fix
ApplyAutoFix(t, f, issue) ==
    IF ~issue.auto_fixable
    THEN Outcome(t, f, "ValueError: Issue is not auto-fixable", None)
    ELSE IF DetailsRaise(issue)
    THEN Outcome(t, f, "TypeError", None)
    ELSE AutoFixed(AutoFixDispatch(t, issue), f, issue)

\* The first of the names cols that is a column of t, "" if none is.
RECURSIVE FirstColumn(_, _)
FirstColumn(t, cols) ==
    IF cols = <<>> THEN ""
    ELSE IF Head(cols) \in t.columns THEN Head(cols)
    ELSE FirstColumn(t, Tail(cols))

\* fix_data is None, or a dict:
\*   [kind |-> "dict", has_ssn_fixes, ssn_fixes, has_compensation, compensation]
\* where ssn_fixes is the list of the dict's items, [row |-> int, ssn |-> str].
IsDict(fix_data) == fix_data.kind = "dict"

\* bool(fix_data)
Truthy(fix_data) ==
    IsDict(fix_data) /\ (fix_data.has_ssn_fixes \/ fix_data.has_compensation)

\* str(original_value) if not pd.isna(original_value) else "MISSING"
StrOrMissing(cell) ==
    IF IsNa(cell) THEN <<"M", "I", "S", "S", "I", "N", "G">> ELSE StrOf(cell)

\* str(original_value), of NaN too.
StrOfAny(cell) == IF IsNa(cell) THEN <<"n", "a", "n">> ELSE StrOf(cell)

\* self.df.at[row, col] = value, recorded in the results with the text
\* original of the value it replaces.
CellWritten(acc, row, col, value, original) ==
    Loop(SetCell(acc.df, row, col, value),
         Append(acc.results, [row |-> row, column |-> col,
                              original |-> original, fixed |-> StrOf(value)]),
         "")

\* The loop of _apply_manual_fix over fix_data['ssn_fixes'].items().
RECURSIVE ManualSsnLoop(_, _, _)
ManualSsnLoop(acc, items, ssn_col) ==
    IF items = <<>>
    THEN acc
    ELSE IF Head(items).row < LenDf(acc.df) /\ ssn_col # ""
    THEN ManualSsnLoop(
             CellWritten(acc, Head(items).row, ssn_col, Str(Head(items).ssn),
                         StrOrMissing(acc.df.data[Head(items).row][ssn_col])),
             Tail(items), ssn_col)
    ELSE ManualSsnLoop(acc, Tail(items), ssn_col)

\* float(fix_data['compensation'].replace('$', '').replace(',', ''))
ManualCompensation(compensation) == ParseFloat(RemoveChars(compensation, {"$", ","}))

\* The write of one row's compensation: float() raises on what is no number.
CompensationWritten(acc, row, col, numeric_value) ==
    IF ~numeric_value.ok
    THEN Raised(acc, "ValueError")
    ELSE CellWritten(acc, row, col, Num(numeric_value.value),
                     StrOfAny(acc.df.data[row][col]))

\* The loop of _apply_manual_fix over issue.affected_rows.
RECURSIVE ManualCompLoop(_, _, _, _)
ManualCompLoop(acc, rows, compensation, col) ==
    IF rows = <<>> \/ acc.err # ""
    THEN acc
    ELSE IF Head(rows) = NotARow
    THEN Raised(acc, "TypeError")
    ELSE IF Head(rows) < LenDf(acc.df) /\ col # ""
    THEN ManualCompLoop(
             CompensationWritten(acc, Head(rows), col, ManualCompensation(compensation)),
             Tail(rows), compensation, col)
    ELSE ManualCompLoop(acc, Tail(rows), compensation, col)

\* if 'ssn_fixes' in fix_data: ...
ManualSsnStep(t, fix_data) ==
    IF fix_data.has_ssn_fixes
    THEN ManualSsnLoop(Loop(t, <<>>, ""), fix_data.ssn_fixes, FirstColumn(t, SsnColumns))
    ELSE Loop(t, <<>>, "")

\* if 'compensation' in fix_data: ...
ManualCompStep(acc, issue, fix_data) ==
    IF fix_data.has_compensation
    THEN ManualCompLoop(acc, issue.affected_rows, fix_data.compensation,
                        FirstColumn(acc.df, CompColumns))
    ELSE acc

\* The end of _apply_manual_fix.
ManualFixed(acc, f) ==
    IF acc.err # ""
    THEN Outcome(acc.df, f, acc.err, None)
    ELSE SavedOutcome(acc.df, f,
                 [action |-> "manual_fix",
                  changes_applied |-> Len(acc.results),
                  details |-> acc.results])

\* _apply_manual_fix
ApplyManualFix(t, f, issue, fix_data) ==
    IF ~IsDict(fix_data)
    THEN Outcome(t, f, "TypeError", None)
    ELSE ManualFixed(ManualCompStep(ManualSsnStep(t, fix_data), issue, fix_data), f)

\* A mutant of ExclusionLoop: the flag of an affected row is inverted.
RECURSIVE ExclusionLoopToggle(_, _)
ExclusionLoopToggle(acc, rows) ==
    IF rows = <<>>
    THEN acc
    ELSE IF Head(rows) = NotARow
    THEN Raised(acc, "TypeError")
    ELSE IF Head(rows) < LenDf(acc.df)
    THEN ExclusionLoopToggle(
             Loop(SetCell(acc.df, Head(rows), "exclude_from_testing",
                          Bool(acc.df.data[Head(rows)]["exclude_from_testing"]
                                   # Bool(TRUE))),
                  <<>>, ""),
             Tail(rows))
    ELSE ExclusionLoopToggle(acc, Tail(rows))

\* The loop of _apply_exclusion over affected_rows.
RECURSIVE ExclusionLoop(_, _)
ExclusionLoop(acc, rows) ==
    IF rows = <<>>
    THEN acc
    ELSE IF Head(rows) = NotARow
    THEN Raised(acc, "TypeError")
    ELSE IF Head(rows) < LenDf(acc.df)
    THEN ExclusionLoop(
             Loop(SetCell(acc.df, Head(rows), "exclude_from_testing", Bool(TRUE)),
                  <<>>, ""),
             Tail(rows))
    ELSE ExclusionLoop(acc, Tail(rows))

\* A mutant of WithExclusionColumn: the column is made anew every time.
WithExclusionColumnReset(t) == AddColumn(t, "exclude_from_testing", Bool(FALSE))

\* if 'exclude_from_testing' not in self.df.columns: add it, all False.
WithExclusionColumn(t) ==
    IF "exclude_from_testing" \in t.columns
    THEN t
    ELSE AddColumn(t, "exclude_from_testing", Bool(FALSE))

\* The end of _apply_exclusion.
Excluded(acc, f, issue) ==
    IF acc.err # ""
    THEN Outcome(acc.df, f, acc.err, None)
    ELSE SavedOutcome(acc.df, f,
                 [action |-> "exclude", excluded_rows |-> Len(issue.affected_rows)])

\* _apply_exclusion
ApplyExclusion(t, f, issue) ==
    Excluded(ExclusionLoop(Loop(WithExclusionColumn(t), <<>>, ""), issue.affected_rows),
             f, issue)

\* _apply_acceptance
ApplyAcceptance(t, f, issue) ==
    Outcome(t, f, "", [action |-> "accept"])

\* XXX-XX-XXXX of nine digits.
Dashed(digits) ==
    SubSeq(digits, 1, 3) \o <<"-">> \o SubSeq(digits, 4, 5) \o <<"-">>
        \o SubSeq(digits, 6, Len(digits))

\* The test SSN of position i: 123456789 + i as XXX-XX-XXXX.
TestSsn(i) == Dashed(NatToChars(123456789 + i))

\* The loop of _generate_test_ssns over enumerate(affected_rows).
RECURSIVE TestSsnLoop(_, _, _, _)
TestSsnLoop(acc, rows, i, ssn_col) ==
    IF rows = <<>>
    THEN acc
    ELSE IF Head(rows) = NotARow
    THEN Raised(acc, "TypeError")
    ELSE IF Head(rows) < LenDf(acc.df)
    THEN TestSsnLoop(
             Loop(SetCell(acc.df, Head(rows), ssn_col, Str(TestSsn(i))),
                  Append(acc.results,
                         [row |-> Head(rows), column |-> ssn_col,
                          original |-> StrOrMissing(acc.df.data[Head(rows)][ssn_col]),
                          generated |-> TestSsn(i)]),
                  ""),
             Tail(rows), i + 1, ssn_col)
    ELSE TestSsnLoop(acc, Tail(rows), i + 1, ssn_col)

\* The end of _generate_test_ssns.
TestSsnsGenerated(acc, f) ==
    IF acc.err # ""
    THEN Outcome(acc.df, f, acc.err, None)
    ELSE SavedOutcome(acc.df, f,
                 [action |-> "generate_test_ssns",
                  generated_count |-> Len(acc.results),
                  details |-> acc.results])

\* _generate_test_data and _generate_test_ssns
GenerateTestData(t, f, issue) ==
    IF TitleHas(issue.title, "ssn")
    THEN IF FirstColumn(t, SsnColumns) = ""
         THEN Outcome(t, f, "ValueError: No SSN column found", None)
         ELSE TestSsnsGenerated(
                  TestSsnLoop(Loop(t, <<>>, ""), issue.affected_rows, 0,
                              FirstColumn(t, SsnColumns)),
                  f)
    ELSE IF TitleHas(issue.title, "compensation")
    THEN \* self._generate_test_compensation does not exist
         Outcome(t, f, "AttributeError", None)
    ELSE Outcome(t, f, "ValueError: Cannot generate test data", None)

ActionTypes == {"auto_fix", "manual_entry", "exclude", "accept", "generate_test"}

\* apply_fix
ApplyFix(t, f, issue, action_type, fix_data) ==
    IF action_type = "auto_fix" THEN ApplyAutoFix(t, f, issue)
    ELSE IF action_type = "manual_entry" THEN ApplyManualFix(t, f, issue, fix_data)
    ELSE IF action_type = "exclude" THEN ApplyExclusion(t, f, issue)
    ELSE IF action_type = "accept" THEN ApplyAcceptance(t, f, issue)
    ELSE IF action_type = "generate_test" THEN GenerateTestData(t, f, issue)
    ELSE Outcome(t, f, "ValueError: Unknown action type", None)

\* The end of preview_fix: self.df is put back in the finally clause, and the
\* file is what _apply_auto_fix left.
Previewed(t, applied) ==
    IF applied.err # ""
    THEN Outcome(t, applied.file, applied.err, None)
    ELSE [Outcome(t, applied.file, "",
                  [changes |-> applied.result.details,
                   affected_rows |-> applied.result.affected_rows,
                   changes_count |-> applied.result.changes_applied])
             EXCEPT !.file_saved = applied.file_saved]

\* preview_fix: _apply_auto_fix runs on a copy that takes the place of self.df.
PreviewFix(t, f, issue) ==
    IF ~issue.auto_fixable
    THEN Outcome(t, f, "ValueError: Issue is not auto-fixable", None)
    ELSE Previewed(t, ApplyAutoFix(t, f, issue))

\* float(str(fix_data['compensation']).replace(', ', '').replace(',', ''))
ValidatedCompensation(compensation) ==
    ParseFloat(RemoveChars(RemoveCommaSpace(compensation), {","}))

\* $10M limit
CompensationLimit == 10000000

\* for row, ssn in fix_data['ssn_fixes'].items(): is one of them invalid?
SomeSsnInvalid(fix_data) ==
    /\ fix_data.has_ssn_fixes
    /\ \E i \in 1..Len(fix_data.ssn_fixes) : ~IsValidSsn(fix_data.ssn_fixes[i].ssn)

\* The dict validate_fix_data returns (errors and warnings as sets), from
\* what the SSN loop found and what float() made of the compensation.
Validation(bad_ssn, has_compensation, comp) ==
    [valid |-> ~bad_ssn /\ (has_compensation => comp.ok /\ comp.value >= 0),
     errors |-> (IF has_compensation /\ comp.ok /\ comp.value < 0
                 THEN {"Compensation cannot be negative"} ELSE {})
                \cup (IF has_compensation /\ ~comp.ok
                      THEN {"Invalid compensation format"} ELSE {}),
     warnings |-> IF has_compensation /\ comp.ok /\ comp.value > CompensationLimit
                  THEN {"Compensation value is unusually high"} ELSE {}]

\* validate_fix_data
ValidateFixData(issue, fix_data) ==
    Validation(SomeSsnInvalid(fix_data), fix_data.has_compensation,
               ValidatedCompensation(fix_data.compensation))

(***************************************************************************)
(* Stored issues (ValidationResult rows) and the requests' inputs          *)
(***************************************************************************)

\* resolution_method = None
NoMethod == "None"

\* A mutant of PostInit: affected_employees keeps the default of the field.
PostInitKeepsDefault(issue) == issue

\* ValidationIssue.__post_init__: whatever count the constructor was given,
\* affected_employees = len(set(self.affected_rows)).
PostInit(issue) ==
    [issue EXCEPT !.affected_employees = Cardinality(Range(issue.affected_rows))]

\* A validation_results row that no fix has touched, with the fields of the
\* ValidationIssue it was stored from.
Issue(issue_type, severity, category, title, affected_rows, auto_fixable, details) ==
    PostInit([issue_type |-> issue_type, severity |-> severity, category |-> category,
              title |-> title, affected_rows |-> affected_rows,
              affected_employees |-> 0,
              auto_fixable |-> auto_fixable, details |-> details,
              is_resolved |-> FALSE, resolution_method |-> NoMethod,
              resolution_data |-> None])

\* An SSN format issue the fix engine can fix, on both rows.
SsnFormatIssue ==
    Issue("critical", "high", "Format Error", "Invalid SSN Format", <<0, 1>>, TRUE, "none")
\* The same with a second entry of affected_rows that is no row number.
MalformedSsnIssue ==
    Issue("critical", "high", "Format Error", "Invalid SSN Format",
          <<0, NotARow>>, TRUE, "none")
\* The SSN format issue as save_validation_results stores it.
StoredSsnIssue ==
    Issue("critical", "high", "format_error", "Invalid SSN Format", <<0, 1>>, TRUE, "dict")
NumericFormatIssue ==
    Issue("critical", "medium", "Format Error",
          "Invalid Numeric Format in PriorYearComp", <<0>>, TRUE, "none")
MissingSsnIssue ==
    Issue("critical", "high", "Missing Data", "Missing Values in SSN", <<1>>, FALSE, "none")
MissingRequiredIssue ==
    Issue("critical", "high", "Missing Data", "Missing Required Fields", <<1>>, TRUE, "none")
CompensationAnomalyIssue ==
    Issue("warning", "medium", "Anomaly", "Unusual Compensation Amounts", <<0>>, FALSE, "none")

\* An issue found before the file lost a row: its second row is none of the
\* table any more.
StaleRowsIssue ==
    Issue("warning", "medium", "Anomaly", "Unusual Compensation Amounts",
          <<1, 2>>, FALSE, "none")

\* The issue lists of a file in the single-request specification.
Catalogs ==
    {<<SsnFormatIssue>>, <<MalformedSsnIssue>>, <<StoredSsnIssue>>,
     <<NumericFormatIssue>>, <<MissingSsnIssue>>, <<MissingRequiredIssue>>,
     <<CompensationAnomalyIssue>>}

SsnSpaced == <<"1", "2", "3", " ", "4", "5", " ", "6", "7", "8", "9">>
SsnShort == <<"1", "2", "3", "4", "5">>
SsnEntered == <<"9", "8", "7", "-", "6", "5", "-", "4", "3", "2", "1">>
SsnZeros == <<"0", "0", "0", "-", "0", "0", "-", "0", "0", "0", "0">>
CompDollars == <<"$", "5", "0", ",", "0", "0", "0">>
CompText == <<"a", "b", "c">>

\* A table of two rows with the columns SSN and PriorYearComp.
Table2(ssn0, comp0, ssn1, comp1) ==
    [columns |-> {"SSN", "PriorYearComp"},
     data |-> [r \in 0..1 |->
                 IF r = 0
                 THEN [c \in {"SSN", "PriorYearComp"} |-> IF c = "SSN" THEN ssn0 ELSE comp0]
                 ELSE [c \in {"SSN", "PriorYearComp"} |-> IF c = "SSN" THEN ssn1 ELSE comp1]]]

\* The uploaded files.
InitTables ==
    {Table2(Str(SsnSpaced), Str(CompDollars), Str(SsnShort), Num(40000))}

Dict(has_ssn_fixes, ssn_fixes, has_compensation, compensation) ==
    [kind |-> "dict", has_ssn_fixes |-> has_ssn_fixes, ssn_fixes |-> ssn_fixes,
     has_compensation |-> has_compensation, compensation |-> compensation]

\* The fix_data of the requests: a valid SSN for row 0, a degenerate SSN for
\* row 0, a valid SSN with a compensation that is no number, and a
\* compensation written with a currency sign.
FixDataDicts ==
    {Dict(TRUE, <<[row |-> 0, ssn |-> SsnEntered]>>, FALSE, <<>>),
     Dict(TRUE, <<[row |-> 0, ssn |-> SsnZeros]>>, FALSE, <<>>),
     Dict(TRUE, <<[row |-> 0, ssn |-> SsnEntered]>>, TRUE, CompText),
     Dict(FALSE, <<>>, TRUE, CompDollars)}

FixDataInputs == FixDataDicts \cup {None}

\* The action_type values of the requests, one of them unknown to the engine.
ActionTypeInputs == ActionTypes \cup {"delete_rows"}

StatusInputs == {"accepted", "excluded", "rejected"}

\* json.dumps(fix_data): the JSON text, written as the value it encodes.
JsonDumps(fix_data) == [kind |-> "json", of |-> fix_data]

IssueIds == DOMAIN issues

NoOp == [op |-> "none", issue |-> 0, action_type |-> "", err |-> "", result |-> None]

\* The server's worker processes.
Workers == {"w1", "w2"}

\* A worker that handles no request.
Idle == [pc |-> "idle", issue |-> 0, action_type |-> "", df |-> EmptyTable,
         err |-> "", result |-> None, file_saved |-> FALSE]

NoEngines == [w \in Workers |-> Idle]

\* No request yet, where the requests are bulk requests.
NoBulkOp == [op |-> "none", issue |-> {}, action_type |-> "", err |-> "", result |-> None]

\* What the last request was and what it answered: issue is the id it was
\* about (the set of ids, for a bulk request), err the exception that ended it
\* ("" for none), result the value returned.
Request(op, issue, action_type, err, result) ==
    [op |-> op, issue |-> issue, action_type |-> action_type,
     err |-> err, result |-> result]

FixInit ==
    /\ issues \in Catalogs
    /\ file \in InitTables
    /\ df = file
    /\ last = NoOp
    /\ fix_history = <<>>

(***************************************************************************)
(* The routes of fix_issue_routes.py                                       *)
(***************************************************************************)

\* A mutant of AddTask: the task is added before the fix is applied.
AddTaskFirst(tasks, err) == tasks \cup {"recalculate_quality_score"}

\* background_tasks.add_task(recalculate_quality_score, file_id, db): the
\* tasks of the file that wait, after a request whose engine left out.  The
\* line is reached only if nothing raised before it.
AddTask(tasks, err) ==
    IF err = "" THEN tasks \cup {"recalculate_quality_score"} ELSE tasks

\* apply_issue_fix lines 70-73: the issue after a fix that did not raise.
Resolve(issue, action_type, fix_data) ==
    [issue EXCEPT !.is_resolved = TRUE,
                  !.resolution_method = action_type,
                  !.resolution_data = IF Truthy(fix_data)
                                      THEN JsonDumps(fix_data)
                                      ELSE None]

\* apply_issue_fix after fix_engine.apply_fix: out is what the engine left.
\* No exception: the issue is resolved and committed.  An exception: rollback,
\* HTTP 500.
IssueFixApplied(i, action_type, fix_data, out) ==
    /\ df' = out.df
    /\ file' = out.file
    /\ issues' = IF out.err = ""
                 THEN [issues EXCEPT ![i] = Resolve(issues[i], action_type, fix_data)]
                 ELSE issues
    /\ last' = Request("apply_issue_fix", i, action_type, out.err, out.result)
    /\ background_tasks' = AddTask(background_tasks, out.err)
    /\ UNCHANGED <<fix_history, scoreVars, quality_score, engines, fix_request>>

\* apply_issue_fix: POST /api/files/{file_id}/issues/{issue_id}/fix
\* The engine of the request loads its table from the file.
ApplyIssueFix(i, action_type, fix_data) ==
    IssueFixApplied(i, action_type, fix_data,
                    ApplyFix(file, file, issues[i], action_type, fix_data))

\* update_issue_status lines 188-197
StatusUpdated(issue, status) ==
    IF status = "accepted"
    THEN [issue EXCEPT !.is_resolved = TRUE, !.resolution_method = "accepted"]
    ELSE IF status = "excluded"
    THEN [issue EXCEPT !.is_resolved = TRUE, !.resolution_method = "excluded"]
    ELSE IF status = "rejected"
    THEN [issue EXCEPT !.is_resolved = FALSE, !.resolution_method = NoMethod]
    ELSE issue

\* update_issue_status: PATCH /api/files/{file_id}/issues/{issue_id}/status
UpdateIssueStatus(i, status) ==
    /\ issues' = [issues EXCEPT ![i] = StatusUpdated(issues[i], status)]
    /\ last' = Request("update_issue_status", i, status, "", None)
    /\ UNCHANGED <<df, file, fix_history, scoreVars, taskVars, engines, fix_request>>

\* preview_auto_fix after fix_engine.preview_fix.
FixPreviewed(i, out) ==
    /\ df' = out.df
    /\ file' = out.file
    /\ last' = Request("preview_fix", i, "", out.err, out.result)
    /\ UNCHANGED <<issues, fix_history, scoreVars, taskVars, engines, fix_request>>

\* preview_auto_fix: GET /api/files/{file_id}/issues/{issue_id}/preview-fix
\* The route refuses an issue that is not auto-fixable before it builds the
\* engine.
PreviewAutoFix(i) ==
    IF ~issues[i].auto_fixable
    THEN /\ last' = Request("preview_fix", i, "",
                            "HTTPException: Issue is not auto-fixable", None)
         /\ UNCHANGED <<df, file, issues, fix_history, scoreVars, taskVars, engines,
                        fix_request>>
    ELSE FixPreviewed(i, PreviewFix(file, file, issues[i]))

\* validate_manual_fix: POST /api/files/{file_id}/issues/{issue_id}/validate-fix
ValidateManualFix(i, fix_data) ==
    /\ df' = file
    /\ last' = Request("validate_fix_data", i, "", "",
                       ValidateFixData(issues[i], fix_data))
    /\ UNCHANGED <<file, issues, fix_history, scoreVars, taskVars, engines, fix_request>>

\* The note of undo_issue_fix's result.
UndoNote == "Original data restoration requires backup implementation"

\* A mutant of Undone: the resolution data is not cleared.
UndoneKeepData(issue) ==
    [issue EXCEPT !.is_resolved = FALSE, !.resolution_method = NoMethod]

\* undo_issue_fix lines 538-540
Undone(issue) ==
    [issue EXCEPT !.is_resolved = FALSE,
                  !.resolution_method = NoMethod,
                  !.resolution_data = None]

\* A mutant of UndoIssueFix: the check that the issue is resolved is missing.
UndoIssueFixUnchecked(i) ==
    /\ df' = file
    /\ issues' = [issues EXCEPT ![i] = Undone(issues[i])]
    /\ last' = Request("undo_issue_fix", i, "", "",
                       [success |-> TRUE,
                        message |-> "Fix undone - issue marked as unresolved",
                        note |-> UndoNote])
    /\ UNCHANGED <<file, fix_history, scoreVars, taskVars, engines, fix_request>>

\* undo_issue_fix, on an engine built for the file.
UndoIssueFix(i) ==
    /\ df' = file
    /\ IF ~issues[i].is_resolved
       THEN /\ last' = Request("undo_issue_fix", i, "",
                               "ValueError: Issue is not resolved, cannot undo", None)
            /\ UNCHANGED issues
       ELSE /\ issues' = [issues EXCEPT ![i] = Undone(issues[i])]
            /\ last' = Request("undo_issue_fix", i, "", "",
                               [success |-> TRUE,
                                message |-> "Fix undone - issue marked as unresolved",
                                note |-> UndoNote])
    /\ UNCHANGED <<file, fix_history, scoreVars, taskVars, engines, fix_request>>

\* len([i for i in issues if i.is_resolved])
ResolvedIssues(iss) == Cardinality({i \in DOMAIN iss : iss[i].is_resolved})

\* overall_score = max(0, 100 - (total_issues * 10) + (resolved_issues * 5))
OverallScore(iss) == Max(0, 100 - (Len(iss) * 10) + (ResolvedIssues(iss) * 5))

\* The data_quality_scores row that recalculate_quality_score commits.
QualityScore(iss) ==
    [kind |-> "score", overall_score |-> OverallScore(iss),
     total_issues |-> Len(iss),
     critical_issues |-> Cardinality({i \in DOMAIN iss : iss[i].issue_type = "critical"}),
     warning_issues |-> Cardinality({i \in DOMAIN iss : iss[i].issue_type = "warning"}),
     auto_fixable_issues |-> Cardinality({i \in DOMAIN iss : iss[i].auto_fixable})]

\* recalculate_quality_score, run as a background task some time after the
\* request that added it has been answered.  ok says whether the database
\* lets it through; if not, the except clause rolls its session back.
RecalculateQualityScore(ok) ==
    /\ "recalculate_quality_score" \in background_tasks
    /\ background_tasks' = background_tasks \ {"recalculate_quality_score"}
    /\ quality_score' = IF ok THEN QualityScore(issues) ELSE quality_score
    /\ UNCHANGED <<issues, file, df, last, fix_history, scoreVars, engines, fix_request>>

(***************************************************************************)
(* Bulk fixes                                                              *)
(***************************************************************************)

\* The most issues of a file in the bulk specification.
NBulk == 3

\* A mutant of Eligible: resolved issues are taken again.
RECURSIVE EligibleResolvedToo(_, _, _)
EligibleResolvedToo(iss, wanted, i) ==
    IF i > Len(iss)
    THEN <<>>
    ELSE (IF i \in wanted /\ iss[i].auto_fixable
          THEN <<i>> ELSE <<>>) \o EligibleResolvedToo(iss, wanted, i + 1)

\* The issues the bulk loops take, in the order of their ids: those asked for
\* that are auto-fixable and unresolved.
RECURSIVE Eligible(_, _, _)
Eligible(iss, wanted, i) ==
    IF i > Len(iss)
    THEN <<>>
    ELSE (IF i \in wanted /\ iss[i].auto_fixable /\ ~iss[i].is_resolved
          THEN <<i>> ELSE <<>>) \o Eligible(iss, wanted, i + 1)

\* The state of a bulk loop: the one engine's table, the stored table, the
\* issue rows of the session and the list of per-issue results.
Bulk(t, f, iss, results) == [df |-> t, file |-> f, issues |-> iss, results |-> results]

\* issue.is_resolved = True; issue.resolution_method = 'auto_fix'
BulkResolved(issue) ==
    [issue EXCEPT !.is_resolved = TRUE, !.resolution_method = "auto_fix"]

\* A mutant of BulkAttempted: a failure is not reported.
BulkAttemptedSilent(acc, id, out) ==
    IF out.err = ""
    THEN Bulk(out.df, out.file,
              [acc.issues EXCEPT ![id] = BulkResolved(acc.issues[id])],
              Append(acc.results, [issue_id |-> id, success |-> TRUE, error |-> "",
                                   saved |-> out.file_saved]))
    ELSE Bulk(out.df, out.file, acc.issues, acc.results)

\* One turn of the bulk loops' try/except: out is what apply_fix left.
BulkAttempted(acc, id, out) ==
    IF out.err = ""
    THEN Bulk(out.df, out.file,
              [acc.issues EXCEPT ![id] = BulkResolved(acc.issues[id])],
              Append(acc.results, [issue_id |-> id, success |-> TRUE, error |-> "",
                                   saved |-> out.file_saved]))
    ELSE Bulk(out.df, out.file, acc.issues,
              Append(acc.results, [issue_id |-> id, success |-> FALSE, error |-> out.err,
                                   saved |-> out.file_saved]))

\* for issue in issues: try: apply_fix(issue, 'auto_fix') ... except: ...
RECURSIVE BulkLoop(_, _)
BulkLoop(acc, ids) ==
    IF ids = <<>>
    THEN acc
    ELSE BulkLoop(
             BulkAttempted(acc, Head(ids),
                           ApplyFix(acc.df, acc.file, acc.issues[Head(ids)],
                                    "auto_fix", None)),
             Tail(ids))

\* len([r for r in fix_results if r["success"]])
Successes(results) == Cardinality({k \in 1..Len(results) : results[k].success})

\* The number of turns of a bulk loop in which apply_fix wrote the file.
Saves(results) == Cardinality({k \in 1..Len(results) : results[k].saved})

Failures(results) == Cardinality({k \in 1..Len(results) : ~results[k].success})

\* apply_bulk_fixes after the loop: commit, and the response.
BulkFixesApplied(done, issue_ids) ==
    /\ df' = done.df
    /\ file' = done.file
    /\ issues' = done.issues
    /\ last' = Request("apply_bulk_fixes", issue_ids, "auto_fix", "",
                       [success |-> TRUE, applied |-> Successes(done.results),
                        of |-> Cardinality(issue_ids), results |-> done.results])
    /\ background_tasks' = AddTask(background_tasks, "")
    /\ UNCHANGED <<fix_history, scoreVars, quality_score, engines, fix_request>>

\* apply_bulk_fixes: POST /api/files/{file_id}/issues/bulk-fix
ApplyBulkFixes(issue_ids) ==
    IF Eligible(issues, issue_ids, 1) = <<>>
    THEN /\ last' = Request("apply_bulk_fixes", issue_ids, "auto_fix",
                            "HTTPException: No auto-fixable issues found", None)
         /\ UNCHANGED <<df, file, issues, fix_history, scoreVars, taskVars, engines,
                        fix_request>>
    ELSE BulkFixesApplied(
             BulkLoop(Bulk(file, file, issues, <<>>), Eligible(issues, issue_ids, 1)),
             issue_ids)

\* apply_all_auto_fixes after the loop: the single save, commit, the result.
AllAutoFixesApplied(done, attempted) ==
    /\ df' = done.df
    /\ file' = SaveDataframe(done.df, done.file)
    /\ issues' = done.issues
    /\ last' = Request("apply_all_auto_fixes", IssueIds, "auto_fix", "",
                       [success |-> TRUE, applied |-> Successes(done.results),
                        of |-> attempted, results |-> done.results,
                        saves |-> Saves(done.results) + 1,
                        commits |-> Saves(done.results) + 2])
    /\ UNCHANGED <<fix_history, scoreVars, taskVars, engines, fix_request>>

\* BulkFixEngine.apply_all_auto_fixes on the issues of the file, with an
\* engine built for the file.
ApplyAllAutoFixes ==
    IF Eligible(issues, IssueIds, 1) = <<>>
    THEN /\ df' = file
         /\ last' = Request("apply_all_auto_fixes", IssueIds, "auto_fix", "",
                            [success |-> TRUE, applied |-> 0,
                             message |-> "No auto-fixable issues found"])
         /\ UNCHANGED <<file, issues, fix_history, scoreVars, taskVars, engines, fix_request>>
    ELSE AllAutoFixesApplied(
             BulkLoop(Bulk(file, file, issues, <<>>), Eligible(issues, IssueIds, 1)),
             Len(Eligible(issues, IssueIds, 1)))

\* [issue for issue in issues if issue.category == category and not
\* issue.is_resolved], as the list of the ids from i on.
RECURSIVE CategoryIssues(_, _, _)
CategoryIssues(iss, category, i) ==
    IF i > Len(iss)
    THEN <<>>
    ELSE (IF iss[i].category = category /\ ~iss[i].is_resolved
          THEN <<i>> ELSE <<>>) \o CategoryIssues(iss, category, i + 1)

\* The else branch of the loop of apply_category_fixes.
RequiresManualFix(acc, id) ==
    Bulk(acc.df, acc.file, acc.issues,
         Append(acc.results, [issue_id |-> id, success |-> FALSE,
                              error |-> "Issue requires manual fix",
                              saved |-> FALSE]))

\* A mutant of CategoryAttempted: every issue of the category is attempted.
CategoryAttemptedAll(acc, id) ==
    BulkAttempted(acc, id, ApplyFix(acc.df, acc.file, acc.issues[id], "auto_fix", None))

\* One turn of the loop of apply_category_fixes.
CategoryAttempted(acc, id) ==
    IF acc.issues[id].auto_fixable
    THEN BulkAttempted(acc, id,
                       ApplyFix(acc.df, acc.file, acc.issues[id], "auto_fix", None))
    ELSE RequiresManualFix(acc, id)

\* for issue in category_issues: ...
RECURSIVE CategoryLoop(_, _)
CategoryLoop(acc, ids) ==
    IF ids = <<>>
    THEN acc
    ELSE CategoryLoop(CategoryAttempted(acc, Head(ids)), Tail(ids))

\* apply_category_fixes after the loop: save and commit if anything was
\* fixed, and the result.
CategoryFixesApplied(done, category, attempted) ==
    /\ df' = done.df
    /\ file' = IF Successes(done.results) > 0
               THEN SaveDataframe(done.df, done.file)
               ELSE done.file
    /\ issues' = done.issues
    /\ last' = Request("apply_category_fixes", IssueIds, "auto_fix", "",
                       [success |-> TRUE, category |-> category,
                        applied |-> Successes(done.results),
                        of |-> attempted, results |-> done.results])
    /\ UNCHANGED <<fix_history, scoreVars, taskVars, engines, fix_request>>

\* BulkFixEngine.apply_category_fixes on the issues of the file, with an
\* engine built for the file.
ApplyCategoryFixes(category) ==
    IF CategoryIssues(issues, category, 1) = <<>>
    THEN /\ df' = file
         /\ last' = Request("apply_category_fixes", IssueIds, "auto_fix", "",
                            [success |-> TRUE, category |-> category, applied |-> 0,
                             message |-> "No unresolved issues found in category"])
         /\ UNCHANGED <<file, issues, fix_history, scoreVars, taskVars, engines, fix_request>>
    ELSE CategoryFixesApplied(
             CategoryLoop(Bulk(file, file, issues, <<>>),
                          CategoryIssues(issues, category, 1)),
             category,
             Len(CategoryIssues(issues, category, 1)))

\* The issues a file of the bulk specification is made of.
BulkIssues ==
    {SsnFormatIssue, NumericFormatIssue, MalformedSsnIssue, MissingSsnIssue}

BulkCatalogs == UNION {[1..n -> BulkIssues] : n \in 1..NBulk}

BulkInit ==
    /\ issues \in BulkCatalogs
    /\ file \in InitTables
    /\ df = file
    /\ last = NoBulkOp
    /\ fix_history = <<>>
    /\ validation_issues = <<>>
    /\ data_quality_score = 100
    /\ phase = "init"
    /\ background_tasks = {}
    /\ quality_score = None
    /\ engines = NoEngines
    /\ fix_request = None

BulkNext ==
    \/ \E issue_ids \in SUBSET IssueIds : ApplyBulkFixes(issue_ids)
    \/ ApplyAllAutoFixes

BulkSpec == BulkInit /\ [][BulkNext]_vars

\* An SSN format issue that is not auto-fixable.
ManualSsnIssue ==
    Issue("critical", "high", "Format Error", "Invalid SSN Format", <<1>>, FALSE, "none")

\* The issues a file of the category specification is made of.
CategoryTemplates ==
    {SsnFormatIssue, MalformedSsnIssue, ManualSsnIssue, MissingSsnIssue}

CategoryCatalogs == UNION {[1..n -> CategoryTemplates] : n \in 1..NBulk}

\* The categories asked for: the two the fix engine knows, and one as the
\* validation engine stores it.
CategoryInputs == {"Format Error", "Missing Data", "format_error"}

CategoryInit ==
    /\ issues \in CategoryCatalogs
    /\ file \in InitTables
    /\ df = file
    /\ last = NoBulkOp
    /\ fix_history = <<>>
    /\ validation_issues = <<>>
    /\ data_quality_score = 100
    /\ phase = "init"
    /\ background_tasks = {}
    /\ quality_score = None
    /\ engines = NoEngines
    /\ fix_request = None

CategoryNext == \E category \in CategoryInputs : ApplyCategoryFixes(category)

CategorySpec == CategoryInit /\ [][CategoryNext]_vars

\* The issues a file of the exclusion specification is made of, and its
\* issue lists: every pair of them.
ExcludeTemplates ==
    {CompensationAnomalyIssue, StaleRowsIssue, MalformedSsnIssue, MissingSsnIssue}

ExcludeCatalogs == [1..2 -> ExcludeTemplates]

ExcludeInit ==
    /\ issues \in ExcludeCatalogs
    /\ file \in InitTables
    /\ df = file
    /\ last = NoOp
    /\ fix_history = <<>>
    /\ validation_issues = <<>>
    /\ data_quality_score = 100
    /\ phase = "init"
    /\ background_tasks = {}
    /\ quality_score = None
    /\ engines = NoEngines
    /\ fix_request = None

\* The requests that exclude or accept an issue, by a fix or by a status
\* update.
ExcludeNext ==
    \/ \E i \in IssueIds, a \in {"exclude", "accept"} : ApplyIssueFix(i, a, None)
    \/ \E i \in IssueIds, st \in StatusInputs : UpdateIssueStatus(i, st)

ExcludeSpec == ExcludeInit /\ [][ExcludeNext]_vars

(***************************************************************************)
(* DataValidationEngine: the detectors                                     *)
(***************************************************************************)

\* A ValidationIssue as a detector appends it: an enum member is written as
\* its value, details is the non-empty dict every detector gives, and
\* is_resolved has its default.  The record is also the validation_results
\* row that save_validation_results makes of it.
Found(issue_type, severity, category, title, affected_rows, auto_fixable) ==
    Issue(issue_type, severity, category, title, affected_rows, auto_fixable, "dict")

\* The f-string titles, for the fields that occur in the tables of the model.
FieldTitle(text, field) ==
    CASE text = "Missing Required Field" ->
             (CASE field = "SSN" -> "Missing Required Field: SSN"
                [] field = "DOB" -> "Missing Required Field: DOB"
                [] field = "DOH" -> "Missing Required Field: DOH"
                [] field = "PriorYearComp" -> "Missing Required Field: PriorYearComp")
      [] text = "Missing Values" ->
             (CASE field = "SSN" -> "Missing Values in SSN"
                [] field = "DOB" -> "Missing Values in DOB"
                [] field = "DOH" -> "Missing Values in DOH"
                [] field = "PriorYearComp" -> "Missing Values in PriorYearComp")
      [] text = "Invalid Date Format" ->
             (CASE field = "DOB" -> "Invalid Date Format in DOB"
                [] field = "DOH" -> "Invalid Date Format in DOH"
                [] field = "DOT" -> "Invalid Date Format in DOT")
      [] text = "Invalid Numeric Format" ->
             (CASE field = "PriorYearComp" -> "Invalid Numeric Format in PriorYearComp"
                [] field = "HoursWorked" -> "Invalid Numeric Format in HoursWorked")
      [] text = "Statistical Outliers" ->
             (CASE field = "PriorYearComp" -> "Statistical Outliers in PriorYearComp"
                [] field = "HoursWorked" -> "Statistical Outliers in HoursWorked")
      [] text = "Identical Values Pattern" ->
             (CASE field = "DOB" -> "Identical Values Pattern in DOB"
                [] field = "DOH" -> "Identical Values Pattern in DOH"
                [] field = "DOT" -> "Identical Values Pattern in DOT"
                [] field = "PriorYearComp" -> "Identical Values Pattern in PriorYearComp"
                [] field = "HoursWorked" -> "Identical Values Pattern in HoursWorked"
                [] field = "Gender" -> "Identical Values Pattern in Gender"
                [] field = "exclude_from_testing" ->
                       "Identical Values Pattern in exclude_from_testing")
      [] text = "Round Number Bias" ->
             (CASE field = "PriorYearComp" -> "Round Number Bias in PriorYearComp")

\* The members of a set of row numbers in rising order: index.tolist().
RECURSIVE RowList(_)
RowList(rows) ==
    IF rows = {}
    THEN <<>>
    ELSE <<CHOOSE r \in rows : \A q \in rows : r <= q>>
             \o RowList(rows \ {CHOOSE r \in rows : \A q \in rows : r <= q})

\* One issue if the list of its rows is not empty.
IfAny(rows, issue) == IF rows = <<>> THEN <<>> ELSE <<issue>>

\* _validate_required_fields, for one field.
RequiredField(t, field) ==
    IF field \notin t.columns
    THEN <<Found("critical", "high", "missing_data",
                 FieldTitle("Missing Required Field", field), <<>>, FALSE)>>
    ELSE IfAny(RowList({r \in DOMAIN t.data : IsNa(t.data[r][field])}),
               Found("critical", "high", "missing_data",
                     FieldTitle("Missing Values", field),
                     RowList({r \in DOMAIN t.data : IsNa(t.data[r][field])}), FALSE))

\* _validate_required_fields
ValidateRequiredFields(t) ==
    RequiredField(t, "SSN") \o RequiredField(t, "DOB") \o RequiredField(t, "DOH")
        \o RequiredField(t, "PriorYearComp")

\* pd.to_datetime(value, format='%Y-%m-%d', errors='raise') does not raise:
\* a four-digit year, a month and a day of one or two digits, "-" between
\* them, and the date exists.
AcceptedDateParts(parts) ==
    /\ Len(parts) = 3
    /\ \A i \in 1..3 : parts[i] # <<>> /\ AllDigits(parts[i])
    /\ Len(parts[1]) = 4 /\ Len(parts[2]) <= 2 /\ Len(parts[3]) <= 2
    /\ ValidDate(DigitsValue(parts[1]), DigitsValue(parts[2]), DigitsValue(parts[3]))

AcceptsDateFormat(s) == AcceptedDateParts(Fields(s, {"-"}))

\* The loop of _validate_date_format: is the cell put on invalid_dates?  A
\* str must parse as %Y-%m-%d; a value that is neither a str nor a datetime
\* is invalid.
InvalidDate(cell) ==
    /\ ~IsNa(cell)
    /\ IF cell.kind = "str" THEN ~AcceptsDateFormat(cell.v) ELSE TRUE

\* The rows of invalid_dates of _validate_date_format(field).
InvalidDates(t, field) ==
    IF field \in t.columns
    THEN RowList({r \in DOMAIN t.data : InvalidDate(t.data[r][field])})
    ELSE <<>>

\* _validate_date_format
ValidateDateFormat(t, field) ==
    IfAny(InvalidDates(t, field),
          Found("critical", "high", "format_error",
                FieldTitle("Invalid Date Format", field), InvalidDates(t, field), TRUE))

\* ssn_pattern.match(str(ssn).strip()) for
\* r'^\d{3}-?\d{2}-?\d{4}$|^\d{9}$': nine digits, a hyphen allowed after the
\* third and after the fifth; "$" also matches before one final newline.
SsnPatternMatches(s) ==
    /\ Len(RemoveChars(s, {"-", "\n"})) = 9
    /\ AllDigits(RemoveChars(s, {"-", "\n"}))
    /\ s \in {RemoveChars(s, {"-", "\n"}) \o tail :
                 tail \in {<<>>, <<"\n">>}}
             \cup {SubSeq(RemoveChars(s, {"-", "\n"}), 1, 3) \o h1
                     \o SubSeq(RemoveChars(s, {"-", "\n"}), 4, 5) \o h2
                     \o SubSeq(RemoveChars(s, {"-", "\n"}), 6, 9) \o tail :
                       h1 \in {<<>>, <<"-">>}, h2 \in {<<>>, <<"-">>},
                       tail \in {<<>>, <<"\n">>}}

\* _validate_ssn_format
ValidateSsnFormat(t) ==
    IF "SSN" \notin t.columns
    THEN <<>>
    ELSE IfAny(RowList({r \in DOMAIN t.data :
                          /\ ~IsNa(t.data[r]["SSN"])
                          /\ ~SsnPatternMatches(Strip(StrOf(t.data[r]["SSN"])))}),
               Found("critical", "high", "format_error", "Invalid SSN Format",
                     RowList({r \in DOMAIN t.data :
                                /\ ~IsNa(t.data[r]["SSN"])
                                /\ ~SsnPatternMatches(Strip(StrOf(t.data[r]["SSN"])))}),
                     TRUE))

\* float(value) of a cell: [ok, value]; ok = FALSE when it raises.
FloatOf(cell) ==
    IF cell.kind = "str" THEN ParseFloat(cell.v)
    ELSE IF cell.kind = "num" THEN [ok |-> TRUE, value |-> cell.v[1]]
    ELSE [ok |-> TRUE, value |-> IF cell.v[1] THEN 1 ELSE 0]

\* _validate_numeric_format
ValidateNumericFormat(t, field) ==
    IF field \notin t.columns
    THEN <<>>
    ELSE IfAny(RowList({r \in DOMAIN t.data :
                          ~IsNa(t.data[r][field]) /\ ~FloatOf(t.data[r][field]).ok}),
               Found("critical", "medium", "format_error",
                     FieldTitle("Invalid Numeric Format", field),
                     RowList({r \in DOMAIN t.data :
                                ~IsNa(t.data[r][field]) /\ ~FloatOf(t.data[r][field]).ok}),
                     TRUE))

\* _validate_data_formats
ValidateDataFormats(t) ==
    ValidateDateFormat(t, "DOB") \o ValidateDateFormat(t, "DOH")
        \o ValidateDateFormat(t, "DOT") \o ValidateSsnFormat(t)
        \o ValidateNumericFormat(t, "PriorYearComp")
        \o ValidateNumericFormat(t, "EmployeeDeferrals")
        \o ValidateNumericFormat(t, "EmployerMatch")
        \o ValidateNumericFormat(t, "HoursWorked")

\* pd.to_datetime(value) of a cell that is not NaN: a str is parsed, a
\* number is a count of nanoseconds from 1970-01-01, a bool raises.
DatetimeOf(cell) ==
    IF cell.kind = "str" THEN ToDatetime(cell.v)
    ELSE IF cell.kind = "num" THEN MakeDate(1970, 1, 1)
    ELSE NoDate

\* A date as a number that grows with it.
DateKey(date) == date.y * 10000 + date.m * 100 + date.d

\* The loop body of _validate_date_logic: is the row put on logic_errors?
DateLogicError(doh, dot) ==
    /\ ~IsNa(doh) /\ ~IsNa(dot)
    /\ DatetimeOf(doh).ok /\ DatetimeOf(dot).ok
    /\ DateKey(DatetimeOf(dot)) <= DateKey(DatetimeOf(doh))

\* _validate_date_logic
ValidateDateLogic(t) ==
    IfAny(RowList({r \in DOMAIN t.data :
                     DateLogicError(t.data[r]["DOH"], t.data[r]["DOT"])}),
          Found("critical", "high", "logic_error", "Termination Date Before Hire Date",
                RowList({r \in DOMAIN t.data :
                           DateLogicError(t.data[r]["DOH"], t.data[r]["DOT"])}),
                FALSE))

\* datetime.now().year
CurrentYear == 2025

\* The loop body of _validate_age_logic.
UnreasonableAge(dob) ==
    /\ ~IsNa(dob)
    /\ DatetimeOf(dob).ok
    /\ \/ CurrentYear - DatetimeOf(dob).y < 16
       \/ CurrentYear - DatetimeOf(dob).y > 90

\* _validate_age_logic
ValidateAgeLogic(t) ==
    IfAny(RowList({r \in DOMAIN t.data : UnreasonableAge(t.data[r]["DOB"])}),
          Found("warning", "medium", "anomaly", "Unreasonable Employee Ages",
                RowList({r \in DOMAIN t.data : UnreasonableAge(t.data[r]["DOB"])}),
                FALSE))

\* The loop body of _validate_compensation_logic.
UnusualComp(comp) ==
    /\ ~IsNa(comp)
    /\ FloatOf(comp).ok
    /\ FloatOf(comp).value < 1000 \/ FloatOf(comp).value > 10000000

\* _validate_compensation_logic
ValidateCompensationLogic(t) ==
    IfAny(RowList({r \in DOMAIN t.data : UnusualComp(t.data[r]["PriorYearComp"])}),
          Found("warning", "medium", "anomaly", "Unusual Compensation Amounts",
                RowList({r \in DOMAIN t.data :
                           UnusualComp(t.data[r]["PriorYearComp"])}),
                FALSE))

\* _validate_cross_field_logic
ValidateCrossFieldLogic(t) ==
    (IF "DOH" \in t.columns /\ "DOT" \in t.columns THEN ValidateDateLogic(t) ELSE <<>>)
        \o (IF "DOB" \in t.columns THEN ValidateAgeLogic(t) ELSE <<>>)
        \o (IF "PriorYearComp" \in t.columns
            THEN ValidateCompensationLogic(t) ELSE <<>>)

\* pd.to_numeric(series, errors='coerce'): the rows whose cell is a number.
NumericRows(t, field) ==
    RowList({r \in DOMAIN t.data :
               ~IsNa(t.data[r][field]) /\ FloatOf(t.data[r][field]).ok})

\* The number of the cell of a numeric row.
NumberAt(t, field, r) == FloatOf(t.data[r][field]).value

RECURSIVE Insert(_, _)
Insert(x, s) ==
    IF s = <<>> THEN <<x>>
    ELSE IF x <= Head(s) THEN <<x>> \o s
    ELSE <<Head(s)>> \o Insert(x, Tail(s))

\* The numbers of the rows, in rising order.
RECURSIVE SortedNumbers(_, _, _)
SortedNumbers(t, field, rows) ==
    IF rows = <<>> THEN <<>>
    ELSE Insert(NumberAt(t, field, Head(rows)), SortedNumbers(t, field, Tail(rows)))

\* Four times series.quantile(k / 4) of the sorted numbers v (not empty), by
\* linear interpolation between the neighbours of position k (n - 1) / 4.
Quantile4(v, k) ==
    IF (k * (Len(v) - 1)) % 4 = 0
    THEN 4 * v[(k * (Len(v) - 1)) \div 4 + 1]
    ELSE 4 * v[(k * (Len(v) - 1)) \div 4 + 1]
           + ((k * (Len(v) - 1)) % 4)
               * (v[(k * (Len(v) - 1)) \div 4 + 2] - v[(k * (Len(v) - 1)) \div 4 + 1])

\* x < Q1 - 2.5 IQR or x > Q3 + 2.5 IQR, all multiplied by 8.
IqrOutlier(x, q1, q3) ==
    \/ 8 * x < 2 * q1 - 5 * (q3 - q1)
    \/ 8 * x > 2 * q3 + 5 * (q3 - q1)

\* The outliers of _detect_compensation_anomalies, given the numeric rows.
CompensationOutliers(t, rows) ==
    IF rows = <<>>
    THEN <<>>
    ELSE RowList({r \in Range(rows) :
                    IqrOutlier(NumberAt(t, "PriorYearComp", r),
                               Quantile4(SortedNumbers(t, "PriorYearComp", rows), 1),
                               Quantile4(SortedNumbers(t, "PriorYearComp", rows), 3))})

\* _detect_compensation_anomalies (historical_data is None)
DetectCompensationAnomalies(t) ==
    IF "PriorYearComp" \notin t.columns
    THEN <<>>
    ELSE IfAny(CompensationOutliers(t, NumericRows(t, "PriorYearComp")),
               Found("warning", "medium", "anomaly", "Statistical Compensation Outliers",
                     CompensationOutliers(t, NumericRows(t, "PriorYearComp")), FALSE))

\* The rows of the table whose cell of the column is the given one.
RowsEqual(t, col, cell) == {r \in DOMAIN t.data : t.data[r][col] = cell}

\* The rows that value_counts() counts: those whose cell is not NaN.
Counted(t, col) == {r \in DOMAIN t.data : ~IsNa(t.data[r][col])}

\* The first row of value_counts(): a row of the most frequent value, the
\* first one of the table among equally frequent values.
MostCommonRow(t, col, rows) ==
    CHOOSE r \in rows :
        \A q \in rows :
            \/ Cardinality(RowsEqual(t, col, t.data[r][col]))
                   > Cardinality(RowsEqual(t, col, t.data[q][col]))
            \/ /\ Cardinality(RowsEqual(t, col, t.data[r][col]))
                      = Cardinality(RowsEqual(t, col, t.data[q][col]))
               /\ \A p \in RowsEqual(t, col, t.data[q][col]) : r <= p

\* The rows of the table with a birth year, and the age of each.
AgeRows(t) ==
    {r \in DOMAIN t.data : ~IsNa(t.data[r]["DOB"]) /\ DatetimeOf(t.data[r]["DOB"]).ok}

AgeAt(t, r) == CurrentYear - DatetimeOf(t.data[r]["DOB"]).y

\* most_common_count of _analyze_age_distribution.
MostCommonAgeCount(t, rows) ==
    CHOOSE n \in 1..Cardinality(rows) :
        /\ \E r \in rows : Cardinality({q \in rows : AgeAt(t, q) = AgeAt(t, r)}) = n
        /\ \A r \in rows : Cardinality({q \in rows : AgeAt(t, q) = AgeAt(t, r)}) <= n

\* _analyze_age_distribution: at least five ages, and more than 30% of them
\* the same.
AnalyzeAgeDistribution(t) ==
    IF Cardinality(AgeRows(t)) < 5
    THEN <<>>
    ELSE IF 10 * MostCommonAgeCount(t, AgeRows(t)) > 3 * Cardinality(AgeRows(t))
    THEN <<Found("info", "low", "anomaly", "Unusual Age Clustering", <<>>, FALSE)>>
    ELSE <<>>

\* A mutant of MassEvents: a date counts only with more than `least` rows.
RECURSIVE MassEventsMoreThan(_, _, _, _, _)
MassEventsMoreThan(t, col, rows, least, issue) ==
    IF rows = {}
    THEN <<>>
    ELSE IF Cardinality(RowsEqual(t, col, t.data[MostCommonRow(t, col, rows)][col])) <= least
    THEN <<>>
    ELSE <<PostInit([issue EXCEPT !.affected_rows =
               RowList(RowsEqual(t, col, t.data[MostCommonRow(t, col, rows)][col]))])>>
           \o MassEventsMoreThan(t, col,
                         rows \ RowsEqual(t, col, t.data[MostCommonRow(t, col, rows)][col]),
                         least, issue)

\* One issue for every date of the rows that at least `least` rows have, the
\* most frequent date first.
RECURSIVE MassEvents(_, _, _, _, _)
MassEvents(t, col, rows, least, issue) ==
    IF rows = {}
    THEN <<>>
    ELSE IF Cardinality(RowsEqual(t, col, t.data[MostCommonRow(t, col, rows)][col])) < least
    THEN <<>>
    ELSE <<PostInit([issue EXCEPT !.affected_rows =
               RowList(RowsEqual(t, col, t.data[MostCommonRow(t, col, rows)][col]))])>>
           \o MassEvents(t, col,
                         rows \ RowsEqual(t, col, t.data[MostCommonRow(t, col, rows)][col]),
                         least, issue)

\* _detect_mass_events: ten or more terminations, fifteen or more hires, on
\* one date.
DetectMassEvents(t) ==
    (IF "DOT" \in t.columns
     THEN MassEvents(t, "DOT", Counted(t, "DOT"), 10,
                     Found("warning", "medium", "anomaly", "Mass Termination Event",
                           <<>>, FALSE))
     ELSE <<>>)
    \o (IF "DOH" \in t.columns
        THEN MassEvents(t, "DOH", Counted(t, "DOH"), 15,
                        Found("warning", "low", "anomaly", "Mass Hiring Event",
                              <<>>, FALSE))
        ELSE <<>>)

\* The sum of the numbers of the rows.
RECURSIVE SumOf(_, _, _)
SumOf(t, field, rows) ==
    IF rows = <<>> THEN 0
    ELSE NumberAt(t, field, Head(rows)) + SumOf(t, field, Tail(rows))

\* n times the distance of the number of row r from the mean of the rows.
Deviation(t, field, rows, r) ==
    Len(rows) * NumberAt(t, field, r) - SumOf(t, field, rows)

RECURSIVE SquaredDeviations(_, _, _, _)
SquaredDeviations(t, field, rows, rest) ==
    IF rest = <<>> THEN 0
    ELSE Deviation(t, field, rows, Head(rest)) * Deviation(t, field, rows, Head(rest))
           + SquaredDeviations(t, field, rows, Tail(rest))

\* abs((x - mean) / std) > 3 with std the sample deviation, for the row r:
\* (x - mean)^2 (n - 1) > 9 sum (x_i - mean)^2.  A deviation of zero, or a
\* single number, gives NaN and no outlier.
ZScoreOutlier(t, field, rows, r) ==
    Deviation(t, field, rows, r) * Deviation(t, field, rows, r) * (Len(rows) - 1)
        > 9 * SquaredDeviations(t, field, rows, rows)

\* _detect_statistical_outliers, for one field.
StatisticalOutliers(t, field) ==
    IF field \notin t.columns
    THEN <<>>
    ELSE IfAny(RowList({r \in Range(NumericRows(t, field)) :
                          ZScoreOutlier(t, field, NumericRows(t, field), r)}),
               Found("info", "low", "anomaly", FieldTitle("Statistical Outliers", field),
                     RowList({r \in Range(NumericRows(t, field)) :
                                ZScoreOutlier(t, field, NumericRows(t, field), r)}),
                     FALSE))

\* _detect_statistical_outliers
DetectStatisticalOutliers(t) ==
    StatisticalOutliers(t, "PriorYearComp") \o StatisticalOutliers(t, "EmployeeDeferrals")
        \o StatisticalOutliers(t, "EmployerMatch") \o StatisticalOutliers(t, "HoursWorked")

\* The columns of a file, in the order the file has them.
ColumnOrder ==
    <<"SSN", "DOB", "DOH", "DOT", "PriorYearComp", "HoursWorked", "Gender",
      "exclude_from_testing">>

\* The loop body of _detect_pattern_anomalies: more than 25% of the values of
\* the column are the same.
PatternAnomaly(t, col) ==
    IF col \notin t.columns \/ col \in {"SSN", "EEID"} \/ Counted(t, col) = {}
    THEN <<>>
    ELSE IF 4 * Cardinality(RowsEqual(t, col,
                                      t.data[MostCommonRow(t, col, Counted(t, col))][col]))
               > Cardinality(Counted(t, col))
    THEN <<Found("info", "low", "anomaly", FieldTitle("Identical Values Pattern", col),
                 RowList(RowsEqual(t, col,
                                   t.data[MostCommonRow(t, col, Counted(t, col))][col])),
                 FALSE)>>
    ELSE <<>>

\* _detect_pattern_anomalies
RECURSIVE DetectPatternAnomalies(_, _)
DetectPatternAnomalies(t, cols) ==
    IF cols = <<>> THEN <<>>
    ELSE PatternAnomaly(t, Head(cols)) \o DetectPatternAnomalies(t, Tail(cols))

\* The rows of round_numbers: series % 1000 == 0.
RoundRows(t, field) ==
    RowList({r \in Range(NumericRows(t, field)) : NumberAt(t, field, r) % 1000 = 0})

\* _detect_round_number_bias, for one field: more than 50% round numbers.
RoundNumberBias(t, field) ==
    IF field \notin t.columns \/ NumericRows(t, field) = <<>>
    THEN <<>>
    ELSE IF 2 * Len(RoundRows(t, field)) > Len(NumericRows(t, field))
    THEN <<Found("info", "low", "anomaly", FieldTitle("Round Number Bias", field),
                 RoundRows(t, field), FALSE)>>
    ELSE <<>>

\* _detect_round_number_bias
DetectRoundNumberBias(t) ==
    RoundNumberBias(t, "PriorYearComp") \o RoundNumberBias(t, "EmployeeDeferrals")
        \o RoundNumberBias(t, "EmployerMatch")

\* _validate_compliance_readiness
ValidateComplianceReadiness(t) ==
    (IF {"SSN", "PriorYearComp", "%Ownership", "Officer"} \subseteq t.columns
     THEN <<>>
     ELSE <<Found("warning", "medium", "compliance_error",
                  "HCE Determination Fields Missing", <<>>, FALSE)>>)
    \o (IF {"DOB", "DOH", "HoursWorked"} \subseteq t.columns
        THEN <<>>
        ELSE <<Found("warning", "medium", "compliance_error",
                     "Eligibility Testing Fields Missing", <<>>, FALSE)>>)

\* What a validation run gives: the issues appended, the score, and the
\* exception that ended it ("" for none).
Run(found, err) ==
    [issues |-> found, err |-> err,
     score |-> IF err = "" THEN CalculateDataQualityScore(found) ELSE 100]

\* The detectors of run_comprehensive_validation up to the age analysis of
\* _detect_demographic_inconsistencies.
FirstDetectors(t) ==
    ValidateRequiredFields(t) \o ValidateDataFormats(t) \o ValidateCrossFieldLogic(t)
        \o DetectCompensationAnomalies(t)
        \o (IF "DOB" \in t.columns THEN AnalyzeAgeDistribution(t) ELSE <<>>)

\* The detectors after _detect_demographic_inconsistencies.
LastDetectors(t) ==
    DetectMassEvents(t) \o DetectStatisticalOutliers(t)
        \o DetectPatternAnomalies(t, ColumnOrder) \o DetectRoundNumberBias(t)
        \o ValidateComplianceReadiness(t)

\* run_comprehensive_validation.  With a Gender column,
\* _detect_demographic_inconsistencies calls self._analyze_gender_distribution,
\* which the class does not define.
RunComprehensiveValidation(t) ==
    IF "Gender" \in t.columns
    THEN Run(FirstDetectors(t), "AttributeError")
    ELSE Run(FirstDetectors(t) \o LastDetectors(t), "")

(***************************************************************************)
(* run_data_validation: POST /api/files/{file_id}/validate                 *)
(***************************************************************************)

\* A mutant of SaveValidationResults: the rows of the file are not deleted
\* before the new ones are added.
SaveValidationResultsMerge(stored, found, ok) ==
    IF ok THEN stored \o found ELSE stored

\* save_validation_results: the validation_results rows of the file after it.
\* The rows of the file are deleted and one row is added per issue found, in
\* one transaction; ok says whether the transaction commits.  If it does not,
\* rollback() undoes the delete and the adds, and the exception goes up.
SaveValidationResults(stored, found, ok) ==
    IF ok THEN found ELSE stored

\* len([i for i in issues if i.issue_type.value == "critical"]) == 0
NoCritical(found) == \A k \in 1..Len(found) : found[k].issue_type # "critical"

\* The body returned by run_data_validation.
ValidationResponse(run) ==
    [kind |-> "validation", status |-> "completed", issues_found |-> Len(run.issues),
     data_quality_score |-> run.score,
     can_proceed_to_compliance |-> NoCritical(run.issues)]

\* run_data_validation after run_comprehensive_validation: run is what the
\* engine returned or raised.  An exception of the engine or of the save marks
\* the ValidationRun failed and answers HTTP 500.
DataValidated(run, ok) ==
    /\ df' = file
    /\ issues' = IF run.err = ""
                 THEN SaveValidationResults(issues, run.issues, ok)
                 ELSE issues
    /\ last' = IF run.err # ""
               THEN Request("run_data_validation", 0, "", run.err, None)
               ELSE IF ~ok
               THEN Request("run_data_validation", 0, "", "OperationalError", None)
               ELSE Request("run_data_validation", 0, "", "", ValidationResponse(run))
    /\ UNCHANGED <<file, fix_history, scoreVars, taskVars, engines, fix_request>>

\* run_data_validation.  The engine of the request loads its table from the
\* file; ok says whether the database commits the results.
RunDataValidation(ok) == DataValidated(RunComprehensiveValidation(file), ok)

DobIso == <<"1", "9", "8", "0", "-", "0", "1", "-", "1", "5">>
DobSlash == <<"1", "/", "5", "/", "1", "9", "8", "0">>
DobText == <<"J", "a", "n", "u", "a", "r", "y", " ", "5", ",", " ", "1", "9", "8", "0">>
DobUnknown == <<"u", "n", "k", "n", "o", "w", "n">>
SsnHyphened == <<"1", "2", "3", "-", "4", "5", "-", "6", "7", "8", "9">>

\* The row of a census file with these cells, as far as the file has the
\* columns.
CensusRow(cols, ssn, dob, comp, gender) ==
    [c \in cols |->
        IF c = "SSN" THEN ssn
        ELSE IF c = "DOB" THEN dob
        ELSE IF c = "PriorYearComp" THEN comp
        ELSE gender]

\* A census file of two rows with the columns cols.
Census(cols, dob0, dob1) ==
    [columns |-> cols,
     data |-> [r \in 0..1 |->
                 IF r = 0
                 THEN CensusRow(cols, Str(SsnHyphened), dob0, Num(50000),
                                Str(<<"F">>))
                 ELSE CensusRow(cols, Str(SsnShort), dob1, Str(CompDollars),
                                Str(<<"M">>))]]

\* The uploaded census files that are validated: with and without a DOB and
\* a Gender column, and with birth dates in several forms.
CensusFiles ==
    {Census({"SSN", "PriorYearComp"}, Null, Null)}
    \cup {Census(cols, Str(dob0), dob1) :
            cols \in {{"SSN", "DOB", "PriorYearComp"},
                      {"SSN", "DOB", "PriorYearComp", "Gender"}},
            dob0 \in {DobIso, DobSlash, DobText, DobUnknown},
            dob1 \in {Null, Str(DobSlash)}}

\* A date format issue the fix engine can fix, on both rows.
DateFormatIssue ==
    Issue("critical", "high", "Format Error", "Invalid Date Format in DOB",
          <<0, 1>>, TRUE, "none")

\* A row that an earlier validation run of the file stored.
EarlierIssue ==
    Found("warning", "medium", "anomaly", "Mass Termination Event", <<0, 1>>, FALSE)

\* The validation_results rows of the file before the requests: none, a date
\* format issue, and the rows of an earlier run.
CensusCatalogs ==
    {<<>>, <<DateFormatIssue>>, <<EarlierIssue, DateFormatIssue>>}

ValidateInit ==
    /\ issues \in CensusCatalogs
    /\ file \in CensusFiles
    /\ df = file
    /\ last = NoOp
    /\ fix_history = <<>>
    /\ validation_issues = <<>>
    /\ data_quality_score = 100
    /\ phase = "init"
    /\ background_tasks = {}
    /\ quality_score = None
    /\ engines = NoEngines
    /\ fix_request = None

\* Validation runs of a file, and automatic fixes of its issues.
ValidateNext ==
    \/ \E ok \in BOOLEAN : RunDataValidation(ok)
    \/ \E i \in IssueIds : ApplyIssueFix(i, "auto_fix", None)

ValidateSpec == ValidateInit /\ [][ValidateNext]_vars

(***************************************************************************)
(* DataValidationEngine.apply_auto_fixes and the route                     *)
(* auto_fix_issues: POST /api/files/{file_id}/auto-fix                     *)
(***************************************************************************)

\* parsed_date.strftime('%Y-%m-%d')
StrftimeYMD(date) ==
    FourDigits(date.y) \o <<"-">> \o TwoDigits(date.m) \o <<"-">> \o TwoDigits(date.d)

\* The branch of apply_auto_fixes that the title selects: "Date Format",
\* "SSN Format" or "Numeric Format" in issue.title; "" for no branch.
AutoFixBranch(title) ==
    IF title \in {"Invalid Date Format in DOB", "Invalid Date Format in DOH",
                  "Invalid Date Format in DOT"}
    THEN "date"
    ELSE IF title = "Invalid SSN Format" THEN "ssn"
    ELSE IF title \in {"Invalid Numeric Format in PriorYearComp",
                       "Invalid Numeric Format in HoursWorked"}
    THEN "numeric"
    ELSE ""

\* issue.details.get('field_name') as the detector of the issue set it; the
\* SSN fix names its column itself.
FieldName(title) ==
    CASE title = "Invalid Date Format in DOB" -> "DOB"
      [] title = "Invalid Date Format in DOH" -> "DOH"
      [] title = "Invalid Date Format in DOT" -> "DOT"
      [] title = "Invalid SSN Format" -> "SSN"
      [] title = "Invalid Numeric Format in PriorYearComp" -> "PriorYearComp"
      [] title = "Invalid Numeric Format in HoursWorked" -> "HoursWorked"

\* re.sub(r'[^\d.-]', '', s)
KeepNumeric(s) == RemoveChars(s, Range(s) \ (Digits \cup {".", "-"}))

\* The loop bodies of _auto_fix_date_format, _auto_fix_ssn_format and
\* _auto_fix_numeric_format: the cell after them.  A cell that cannot be
\* read is left as it is.
AutoFixedCell(branch, cell) ==
    IF IsNa(cell)
    THEN cell
    ELSE IF branch = "date"
    THEN (IF DatetimeOf(cell).ok THEN Str(StrftimeYMD(DatetimeOf(cell))) ELSE cell)
    ELSE IF branch = "ssn"
    THEN (IF StandardizeSsn(Strip(StrOf(cell))).ok
          THEN Str(StandardizeSsn(Strip(StrOf(cell))).value)
          ELSE cell)
    ELSE IF /\ KeepNumeric(Strip(StrOf(cell))) # <<>>
            /\ ParseFloat(KeepNumeric(Strip(StrOf(cell)))).ok
    THEN Num(ParseFloat(KeepNumeric(Strip(StrOf(cell)))).value)
    ELSE cell

\* The loops of the three _auto_fix_ methods over issue.affected_rows.
RECURSIVE AutoFixRows(_, _, _, _)
AutoFixRows(branch, t, col, rows) ==
    IF rows = <<>> \/ col \notin t.columns
    THEN t
    ELSE AutoFixRows(branch,
                     SetCell(t, Head(rows), col,
                             AutoFixedCell(branch, t.data[Head(rows)][col])),
                     col, Tail(rows))

\* apply_auto_fixes from the k-th issue on: the corrected table, and the
\* issues with is_resolved set on those a branch was taken for.
RECURSIVE ApplyAutoFixes(_, _, _)
ApplyAutoFixes(t, found, k) ==
    IF k > Len(found)
    THEN [df |-> t, issues |-> found]
    ELSE IF /\ found[k].auto_fixable
            /\ found[k].category = "format_error"
            /\ AutoFixBranch(found[k].title) # ""
    THEN ApplyAutoFixes(AutoFixRows(AutoFixBranch(found[k].title), t,
                                    FieldName(found[k].title), found[k].affected_rows),
                        [found EXCEPT ![k].is_resolved = TRUE], k + 1)
    ELSE ApplyAutoFixes(t, found, k + 1)

\* auto_fix_issues lines 674-683: for every auto-fixable issue of the run the
\* first stored row with its title is marked resolved.
MarkedResolved(stored, found) ==
    [k \in DOMAIN stored |->
        IF /\ \E j \in DOMAIN found :
                 found[j].auto_fixable /\ found[j].title = stored[k].title
           /\ \A j \in 1..(k - 1) : stored[j].title # stored[k].title
        THEN [stored[k] EXCEPT !.is_resolved = TRUE]
        ELSE stored[k]]

\* auto_fix_issues after the validation run: run is what the engine returned
\* or raised, fixed what apply_auto_fixes made of it.  The corrected table
\* is written to the file before the results are saved.
AutoFixesApplied(run, fixed, ok) ==
    /\ df' = IF run.err = "" THEN fixed.df ELSE file
    /\ file' = IF run.err = "" THEN fixed.df ELSE file
    /\ issues' = IF run.err = "" /\ ok
                 THEN MarkedResolved(SaveValidationResults(issues, fixed.issues, ok),
                                     fixed.issues)
                 ELSE issues
    /\ last' = IF run.err # ""
               THEN Request("auto_fix_issues", 0, "", run.err, None)
               ELSE IF ~ok
               THEN Request("auto_fix_issues", 0, "", "OperationalError", None)
               ELSE Request("auto_fix_issues", 0, "", "",
                            [kind |-> "auto_fix",
                             message |-> "Auto-fixes applied successfully",
                             issues_fixed |->
                                 Cardinality({j \in DOMAIN run.issues :
                                                run.issues[j].auto_fixable}),
                             quality_score |-> run.score])
    /\ UNCHANGED <<fix_history, scoreVars, taskVars, engines, fix_request>>

\* auto_fix_issues.  ok says whether the database commits the results.
AutoFixIssues(ok) ==
    AutoFixesApplied(RunComprehensiveValidation(file),
                     ApplyAutoFixes(file, RunComprehensiveValidation(file).issues, 1),
                     ok)

\* The files of the whole-file fixes: a file without birth dates, and census
\* files with them.
AutoFixFiles ==
    InitTables
    \cup {Census({"SSN", "DOB", "PriorYearComp"}, Str(dob0), Null) :
            dob0 \in {DobIso, DobSlash, DobUnknown}}
    \cup {Census({"SSN", "DOB", "PriorYearComp", "Gender"}, Str(DobSlash), Null)}

\* The rows stored for the file before the requests.
AutoFixCatalogs ==
    {<<>>, <<SsnFormatIssue>>, <<CompensationAnomalyIssue>>}

AutoFixInit ==
    /\ issues \in AutoFixCatalogs
    /\ file \in AutoFixFiles
    /\ df = file
    /\ last = NoOp
    /\ fix_history = <<>>
    /\ validation_issues = <<>>
    /\ data_quality_score = 100
    /\ phase = "init"
    /\ background_tasks = {}
    /\ quality_score = None
    /\ engines = NoEngines
    /\ fix_request = None

\* The single requests are about the first issues of the file, up to this one.
MaxTouched == 2

\* Whole-file automatic fixes, single fixes, status updates and undos.
AutoFixNext ==
    \/ \E ok \in BOOLEAN : AutoFixIssues(ok)
    \/ \E i \in IssueIds \cap 1..MaxTouched, a \in {"auto_fix", "accept"} :
          ApplyIssueFix(i, a, None)
    \/ \E i \in IssueIds \cap 1..MaxTouched, st \in StatusInputs :
          UpdateIssueStatus(i, st)
    \/ \E i \in IssueIds \cap 1..MaxTouched : UndoIssueFix(i)

AutoFixSpec == AutoFixInit /\ [][AutoFixNext]_vars

(***************************************************************************)
(* validate_manual_fix on the SSN entries of a request                     *)
(***************************************************************************)

SsnNines == <<"9", "9", "9", "-", "9", "9", "-", "9", "9", "9", "9">>
SsnUndashed == <<"9", "8", "7", "6", "5", "4", "3", "2", "1">>
SsnNewline == SsnEntered \o <<"\n">>

\* The fix_data of the requests to validate: one SSN entry each, and one
\* with a valid and a degenerate entry.
FixRequests ==
    {Dict(TRUE, <<[row |-> 0, ssn |-> s]>>, FALSE, <<>>) :
        s \in {SsnEntered, SsnZeros, SsnNines, SsnUndashed, SsnSpaced, SsnShort,
               SsnNewline}}
    \cup {Dict(TRUE, <<[row |-> 0, ssn |-> SsnEntered], [row |-> 1, ssn |-> SsnZeros]>>,
               FALSE, <<>>)}

ValidateFixInit ==
    /\ issues \in Catalogs
    /\ file \in InitTables
    /\ df = file
    /\ last = NoOp
    /\ fix_history = <<>>
    /\ validation_issues = <<>>
    /\ data_quality_score = 100
    /\ phase = "init"
    /\ background_tasks = {}
    /\ quality_score = None
    /\ engines = NoEngines
    /\ fix_request \in FixRequests

\* The request is validated, before or after status updates of the issue.
ValidateFixNext ==
    \/ \E i \in IssueIds : ValidateManualFix(i, fix_request)
    \/ \E i \in IssueIds, st \in StatusInputs : UpdateIssueStatus(i, st)

ValidateFixSpec == ValidateFixInit /\ [][ValidateFixNext]_vars

(***************************************************************************)
(* Suggestions and the reports on the progress of the fixes                *)
(***************************************************************************)

Suggestion(type, confidence) == [type |-> type, confidence |-> confidence]

\* IssueFixEngine.get_fix_suggestions: the type and the confidence of each
\* suggestion, in the order of the list.
GetSuggestions(issue) ==
    (IF issue.auto_fixable
     THEN <<Suggestion("auto_fix", "issue.confidence_score")>>
     ELSE <<>>)
    \o (IF issue.category = "Missing Data"
        THEN <<Suggestion("manual_entry", "1.0"), Suggestion("exclude", "0.8"),
               Suggestion("generate_test", "0.6")>>
        ELSE IF issue.category = "Anomaly"
        THEN <<Suggestion("accept", "0.7"), Suggestion("manual_entry", "0.9")>>
        ELSE <<>>)

\* get_fix_suggestions: GET /api/files/{file_id}/issues/{issue_id}/suggestions
GetFixSuggestions(i) ==
    /\ df' = file
    /\ last' = Request("get_fix_suggestions", i, "", "",
                       [kind |-> "suggestions", suggestions |-> GetSuggestions(issues[i])])
    /\ UNCHANGED <<file, issues, fix_history, scoreVars, taskVars, engines, fix_request>>

\* The rows of the file with is_resolved == False and the issue_type.
Unresolved(iss, issue_type) ==
    {k \in DOMAIN iss : ~iss[k].is_resolved /\ iss[k].issue_type = issue_type}

\* A mutant of FixProgress: the critical issues are counted resolved or not.
FixProgressAllCritical(iss) ==
    [kind |-> "progress",
     unresolved_issues |-> Len(iss) - ResolvedIssues(iss),
     resolved_issues |-> ResolvedIssues(iss),
     critical_issues |-> Cardinality({k \in DOMAIN iss : iss[k].issue_type = "critical"}),
     can_proceed_to_compliance |->
         Cardinality({k \in DOMAIN iss : iss[k].issue_type = "critical"}) = 0]

\* The body returned by get_fix_progress (without the percentage).
FixProgress(iss) ==
    [kind |-> "progress",
     unresolved_issues |-> Len(iss) - ResolvedIssues(iss),
     resolved_issues |-> ResolvedIssues(iss),
     critical_issues |-> Cardinality(Unresolved(iss, "critical")),
     can_proceed_to_compliance |-> Cardinality(Unresolved(iss, "critical")) = 0]

\* get_fix_progress: GET /api/files/{file_id}/fix-progress
GetFixProgress ==
    /\ last' = Request("get_fix_progress", 0, "", "", FixProgress(issues))
    /\ UNCHANGED <<df, file, issues, fix_history, scoreVars, taskVars, engines,
                   fix_request>>

\* The body returned by check_compliance_readiness.
Readiness(iss) ==
    [kind |-> "readiness",
     ready_for_compliance |-> Cardinality(Unresolved(iss, "critical")) = 0,
     critical_issues_remaining |-> Cardinality(Unresolved(iss, "critical")),
     warning_issues_remaining |-> Cardinality(Unresolved(iss, "warning")),
     recommendations |-> IF Cardinality(Unresolved(iss, "critical")) > 0
                         THEN "Resolve all critical issues before running compliance tests"
                         ELSE "File is ready for compliance testing"]

\* check_compliance_readiness: GET /api/files/{file_id}/compliance-readiness
CheckComplianceReadiness ==
    /\ last' = Request("check_compliance_readiness", 0, "", "", Readiness(issues))
    /\ UNCHANGED <<df, file, issues, fix_history, scoreVars, taskVars, engines,
                   fix_request>>

\* The rows of the file before the requests: rows stored by a validation run
\* of the file, and rows with the categories the fix engine compares with.
ReportCatalogs ==
    {RunComprehensiveValidation(Census({"SSN", "DOB", "PriorYearComp"},
                                       Str(DobSlash), Null)).issues,
     <<MissingSsnIssue, CompensationAnomalyIssue>>,
     <<SsnFormatIssue, MissingSsnIssue>>,
     <<CompensationAnomalyIssue>>}

ReportInit ==
    /\ issues \in ReportCatalogs
    /\ file \in InitTables
    /\ df = file
    /\ last = NoOp
    /\ fix_history = <<>>
    /\ validation_issues = <<>>
    /\ data_quality_score = 100
    /\ phase = "init"
    /\ background_tasks = {}
    /\ quality_score = None
    /\ engines = NoEngines
    /\ fix_request = None

\* Fixes, undos and status updates of the first issues of the file, and the
\* suggestions and reports asked for in between.
ReportNext ==
    \/ \E i \in IssueIds : GetFixSuggestions(i)
    \/ GetFixProgress
    \/ CheckComplianceReadiness
    \/ \E i \in IssueIds \cap 1..MaxTouched, a \in {"auto_fix", "accept"} :
          ApplyIssueFix(i, a, None)
    \/ \E i \in IssueIds \cap 1..MaxTouched : UndoIssueFix(i)
    \/ \E i \in IssueIds \cap 1..MaxTouched, st \in StatusInputs :
          UpdateIssueStatus(i, st)

ReportSpec == ReportInit /\ [][ReportNext]_vars

(***************************************************************************)
(* Validation of files with many terminations                              *)
(***************************************************************************)

\* The number of rows of the smaller files; the larger ones have eight more,
\* enough for two dates of ten rows.
MassRows == 12

TermJune == <<"2", "0", "2", "4", "-", "0", "6", "-", "3", "0">>
TermDecember == <<"2", "0", "2", "4", "-", "1", "2", "-", "3", "1">>

\* A file of n rows with the one column DOT: the first a rows were terminated
\* on one date, the last b rows on another, the rows between are active.
MassTable(n, a, b) ==
    [columns |-> {"DOT"},
     data |-> [r \in 0..(n - 1) |->
                 [c \in {"DOT"} |->
                     IF r < a THEN Str(TermJune)
                     ELSE IF r >= n - b THEN Str(TermDecember)
                     ELSE Null]]]

MassTables ==
    {MassTable(x[1], x[2], x[3]) :
        x \in {y \in {MassRows, MassRows + 8} \X (0..(MassRows + 8)) \X (0..(MassRows + 8)) :
                  y[2] + y[3] <= y[1]}}

MassInit ==
    /\ issues = <<>>
    /\ file \in MassTables
    /\ df = file
    /\ last = NoOp
    /\ fix_history = <<>>
    /\ validation_issues = <<>>
    /\ data_quality_score = 100
    /\ phase = "init"
    /\ background_tasks = {}
    /\ quality_score = None
    /\ engines = NoEngines
    /\ fix_request = None

MassNext == \E ok \in BOOLEAN : RunDataValidation(ok)

MassSpec == MassInit /\ [][MassNext]_vars

(***************************************************************************)
(* Requests served at the same time                                        *)
(***************************************************************************)

\* apply_issue_fix up to line 64, in worker w: the issue is looked up and
\* IssueFixEngine(db, file_upload) loads the table from the file.
LoadEngine(w, i, action_type) ==
    /\ engines[w].pc = "idle"
    /\ engines' = [engines EXCEPT ![w] =
                      [pc |-> "loaded", issue |-> i, action_type |-> action_type,
                       df |-> file, err |-> "", result |-> None,
                       file_saved |-> FALSE]]
    /\ UNCHANGED <<issues, file, df, last, fix_history, scoreVars, taskVars,
                   fix_request>>

\* The engine of a worker after apply_fix has worked on its table: out is the
\* outcome of apply_fix on the table the engine loaded.
Applied(engine, out) ==
    [pc |-> "applied", issue |-> engine.issue, action_type |-> engine.action_type,
     df |-> out.df, err |-> out.err, result |-> out.result,
     file_saved |-> out.file_saved]

\* fix_engine.apply_fix in worker w, up to its _save_dataframe: the fixer
\* rewrites the cells of the engine's own table.
MutateEngine(w) ==
    /\ engines[w].pc = "loaded"
    /\ engines' = [engines EXCEPT ![w] =
                      Applied(engines[w],
                              ApplyFix(engines[w].df, file, issues[engines[w].issue],
                                       engines[w].action_type, None))]
    /\ UNCHANGED <<issues, file, df, last, fix_history, scoreVars, taskVars,
                   fix_request>>

\* The rest of the request of worker w: _save_dataframe writes the engine's
\* table over the file, the issue is resolved and committed and the task
\* added; or the exception is answered with a rollback.
SaveEngine(w) ==
    /\ engines[w].pc = "applied"
    /\ file' = IF engines[w].file_saved
               THEN SaveDataframe(engines[w].df, file)
               ELSE file
    /\ df' = engines[w].df
    /\ issues' = IF engines[w].err = ""
                 THEN [issues EXCEPT ![engines[w].issue] =
                          Resolve(issues[engines[w].issue],
                                  engines[w].action_type, None)]
                 ELSE issues
    /\ last' = Request("apply_issue_fix", engines[w].issue,
                       engines[w].action_type, engines[w].err, engines[w].result)
    /\ background_tasks' = AddTask(background_tasks, engines[w].err)
    /\ engines' = [engines EXCEPT ![w] = Idle]
    /\ UNCHANGED <<fix_history, scoreVars, quality_score, fix_request>>

\* The issue lists of a file whose requests are served at the same time: two
\* issues, each on its own column.
ConcurrentCatalogs ==
    {<<SsnFormatIssue, NumericFormatIssue>>, <<NumericFormatIssue, SsnFormatIssue>>,
     <<MalformedSsnIssue, NumericFormatIssue>>, <<SsnFormatIssue, MissingSsnIssue>>}

ConcurrentInit ==
    /\ issues \in ConcurrentCatalogs
    /\ file \in InitTables
    /\ df = file
    /\ last = NoOp
    /\ fix_history = <<>>
    /\ validation_issues = <<>>
    /\ data_quality_score = 100
    /\ phase = "init"
    /\ background_tasks = {}
    /\ quality_score = None
    /\ engines = NoEngines
    /\ fix_request = None

\* Nothing in the code orders the requests of two workers: their steps come
\* in any order.
ConcurrentNext ==
    \/ \E w \in Workers, i \in IssueIds : LoadEngine(w, i, "auto_fix")
    \/ \E w \in Workers : MutateEngine(w)
    \/ \E w \in Workers : SaveEngine(w)

ConcurrentSpec == ConcurrentInit /\ [][ConcurrentNext]_vars

Init ==
    /\ FixInit
    /\ validation_issues = <<>>
    /\ data_quality_score = 100
    /\ phase = "init"
    /\ background_tasks = {}
    /\ quality_score = None
    /\ engines = NoEngines
    /\ fix_request = None

Next ==
    \/ \E i \in IssueIds, a \in ActionTypeInputs :
           \E fd \in (IF a = "manual_entry" THEN FixDataInputs ELSE {None}) :
               ApplyIssueFix(i, a, fd)
    \/ \E i \in IssueIds, st \in StatusInputs : UpdateIssueStatus(i, st)
    \/ \E i \in IssueIds : PreviewAutoFix(i)
    \/ \E i \in IssueIds, fd \in FixDataDicts : ValidateManualFix(i, fd)
    \/ \E i \in IssueIds : UndoIssueFix(i)

Spec == Init /\ [][Next]_vars

\* The fix requests of a file together with the background task they add:
\* the task runs at any time after its request, or waits.
RecalcInit ==
    /\ FixInit
    /\ validation_issues = <<>>
    /\ data_quality_score = 100
    /\ phase = "init"
    /\ background_tasks = {}
    /\ quality_score = None
    /\ engines = NoEngines
    /\ fix_request = None

RecalcNext ==
    \/ \E i \in IssueIds, a \in ActionTypeInputs \ {"manual_entry"} :
           ApplyIssueFix(i, a, None)
    \/ \E i \in IssueIds, st \in StatusInputs : UpdateIssueStatus(i, st)
    \/ \E ok \in BOOLEAN : RecalculateQualityScore(ok)

RecalcSpec == RecalcInit /\ [][RecalcNext]_vars

ScoreInit ==
    /\ EngineInit
    /\ issues = <<>> /\ file = EmptyTable /\ df = EmptyTable
    /\ last = NoOp /\ fix_history = <<>>
    /\ background_tasks = {} /\ quality_score = None
    /\ engines = NoEngines
    /\ fix_request = None

ScoreSpec == ScoreInit /\ [][ScoreNext]_vars

(***************************************************************************)
(* Properties                                                              *)
(***************************************************************************)

\* issue_list with p put in after its first k issues.
InsertAt(issue_list, k, p) ==
    SubSeq(issue_list, 1, k) \o <<p>> \o SubSeq(issue_list, k + 1, Len(issue_list))

\* C1: for every list of issues the score the scorer computes lies in
\* [0, 100], and one more issue of any kind and severity, added anywhere in
\* the list, never gives a higher score.
C1_ScoreInRangeAndMonotone ==
    phase = "scored" =>
        /\ data_quality_score >= 0
        /\ data_quality_score <= 100
        /\ \A p \in IssuePairs, k \in 0..Len(validation_issues) :
               CalculateDataQualityScore(InsertAt(validation_issues, k, p))
                   <= data_quality_score

\* C1 witness: a scored run whose deductions pass 100, so that the score is
\* held at 0.
C1_Witness ==
    /\ phase = "scored"
    /\ data_quality_score = 0
    /\ ScoreLoop(100, validation_issues) < 0

\* The deduction table as the specification states it.
TableDeduction(p) ==
    CASE p.issue_type = "critical" /\ p.severity = "high" -> 15
      [] p.issue_type = "critical" /\ p.severity = "medium" -> 10
      [] p.issue_type = "critical" /\ p.severity = "low" -> 5
      [] p.issue_type = "warning" /\ p.severity = "high" -> 8
      [] p.issue_type = "warning" /\ p.severity = "medium" -> 5
      [] p.issue_type = "warning" /\ p.severity = "low" -> 2
      [] p.issue_type = "info" -> 1

\* How many times p occurs in issue_list.
CountOf(issue_list, p) ==
    Cardinality({k \in 1..Len(issue_list) : issue_list[k] = p})

\* The sum over the pairs of S of count times deduction: a sum over the
\* multiset of issue_list.
RECURSIVE TableSum(_, _)
TableSum(issue_list, S) ==
    IF S = {}
    THEN 0
    ELSE LET p == CHOOSE q \in S : TRUE
         IN  CountOf(issue_list, p) * TableDeduction(p) + TableSum(issue_list, S \ {p})

Clamp(x) == IF x < 0 THEN 0 ELSE IF x > 100 THEN 100 ELSE x

\* issue_list with the issues at k and k + 1 exchanged.
SwapAt(issue_list, k) ==
    [j \in 1..Len(issue_list) |->
        IF j = k THEN issue_list[k + 1]
        ELSE IF j = k + 1 THEN issue_list[k]
        ELSE issue_list[j]]

\* C2: the score of a run is 100 minus the sum of the per-issue deductions of
\* the table, clamped to [0, 100]; it is a function of the multiset of
\* (kind, severity) pairs, and exchanging two issues does not change it.
C2_ScoreIsClampedTableSum ==
    phase = "scored" =>
        /\ data_quality_score = Clamp(100 - TableSum(validation_issues, IssuePairs))
        /\ \A k \in 1..(Len(validation_issues) - 1) :
               CalculateDataQualityScore(SwapAt(validation_issues, k))
                   = data_quality_score

\* C2 witness: a scored run of different issues, an info issue among them,
\* whose score is not clamped.
C2_Witness ==
    /\ phase = "scored"
    /\ Len(validation_issues) >= 3
    /\ validation_issues[1] # validation_issues[2]
    /\ \E k \in 1..Len(validation_issues) : validation_issues[k].issue_type = "info"
    /\ data_quality_score > 0
    /\ data_quality_score < 100

\* C3: preview_fix never mutates the live table: after it returns or fails,
\* the table of the engine and the stored table are what they were before.
C3_PreviewLeavesTable ==
    [][last'.op = "preview_fix" => df' = file /\ file' = file]_vars

\* The apply_issue_fix request of the step is one the engine has to reject:
\* auto_fix of an issue that is not auto-fixable, or an unknown action type.
Rejectable ==
    /\ last'.op = "apply_issue_fix"
    /\ \/ last'.action_type = "auto_fix" /\ ~issues[last'.issue].auto_fixable
       \/ last'.action_type \notin ActionTypes

\* C4: apply_fix with auto_fix on an issue that is not auto-fixable, or with
\* an unknown action type, ends in an error; the table in memory and the
\* stored table are unchanged, and so is the issue: one that was unresolved is
\* still unresolved with no resolution method.
C4_RejectedFixChangesNothing ==
    [][Rejectable =>
          /\ last'.err # ""
          /\ df' = file
          /\ file' = file
          /\ issues' = issues
          /\ ~issues[last'.issue].is_resolved =>
                 /\ ~issues'[last'.issue].is_resolved
                 /\ issues'[last'.issue].resolution_method = NoMethod]_vars

\* C4 witness: auto_fix of an unresolved issue that is not auto-fixable has
\* been refused.
C4_Witness ==
    /\ last.op = "apply_issue_fix"
    /\ last.action_type = "auto_fix"
    /\ last.err = "ValueError: Issue is not auto-fixable"
    /\ ~issues[last.issue].auto_fixable
    /\ ~issues[last.issue].is_resolved

\* C5: a fix of a single issue is atomic: when apply_fix fails, no cell it
\* wrote stays changed, neither in the engine's table nor in the stored one.
C5_FailedFixLeavesTable ==
    [][last'.op = "apply_issue_fix" /\ last'.err # "" =>
          df' = file /\ file' = file]_vars

\* The positions in the list ids of the issues whose auto-fix, applied to the
\* stored table, raises.
FailingAt(ids) ==
    {k \in 1..Len(ids) :
        ApplyFix(file, file, issues[ids[k]], "auto_fix", None).err # ""}

\* What C6 says of a bulk run over the issues ids (in the order taken) that
\* has just ended, failing being the positions of FailingAt(ids): every issue
\* has its result, the one at a failing position a failure and the others
\* successes, and the issues end accordingly.
BulkReport(ids, failing) ==
    /\ last'.err = ""
    /\ Len(last'.result.results) = Len(ids)
    /\ Successes(last'.result.results) = Len(ids) - 1
    /\ Failures(last'.result.results) = 1
    /\ last'.result.applied = Len(ids) - 1
    /\ \A k \in 1..Len(ids) :
           /\ last'.result.results[k].issue_id = ids[k]
           /\ last'.result.results[k].success = (k \notin failing)
           /\ issues'[ids[k]].is_resolved = (k \notin failing)
           /\ k \notin failing => issues'[ids[k]].resolution_method = "auto_fix"

\* A bulk run over the issues ids with exactly one failing issue reports so.
OneFailureReported(ids, failing) ==
    Cardinality(failing) = 1 => BulkReport(ids, failing)

\* C6: in a bulk auto-fix over N auto-fixable unresolved issues of which
\* exactly one fails when applied, wherever it stands, the other N - 1 are
\* attempted and succeed: N - 1 successes and 1 failure are reported, the
\* N - 1 issues end resolved with method auto_fix, the failing one unresolved.
C6_BulkIsolatesOneFailure ==
    [][last'.op \in {"apply_bulk_fixes", "apply_all_auto_fixes"} =>
          OneFailureReported(Eligible(issues, last'.issue, 1),
                             FailingAt(Eligible(issues, last'.issue, 1)))]_vars

\* C6 witness: a bulk request over three issues has ended with the second one
\* failed and the first and third fixed.
C6_Witness ==
    /\ last.op = "apply_bulk_fixes"
    /\ last.err = ""
    /\ Len(last.result.results) = 3
    /\ last.result.results[1].success
    /\ ~last.result.results[2].success
    /\ last.result.results[3].success
    /\ issues[1].is_resolved /\ issues[1].resolution_method = "auto_fix"
    /\ ~issues[2].is_resolved
    /\ issues[3].is_resolved /\ issues[3].resolution_method = "auto_fix"

\* C7: an issue becomes Resolved only from Unresolved through a fix that
\* succeeded, and a Resolved issue leaves Resolved, or changes its method,
\* only through undo: no operation rewrites the method of a resolved issue or
\* resolves it again.
C7_ResolutionStateMachine ==
    [][\A i \in IssueIds :
          /\ (~issues[i].is_resolved /\ issues'[i].is_resolved) =>
                 /\ last'.op \in {"apply_issue_fix", "apply_bulk_fixes",
                                  "apply_all_auto_fixes"}
                 /\ last'.err = ""
          /\ issues[i].is_resolved =>
                 \/ /\ issues'[i].is_resolved
                    /\ issues'[i].resolution_method = issues[i].resolution_method
                    /\ ~(/\ last'.op = "apply_issue_fix"
                         /\ last'.issue = i
                         /\ last'.err = "")
                 \/ last'.op = "undo_issue_fix" /\ last'.issue = i]_vars

\* C8: undo of a resolved issue returns it to Unresolved with its resolution
\* method and data cleared; no rollback snapshot being stored, the table is
\* left as it is and the result carries the note that the original data was
\* not restored.
C8_UndoClearsResolutionOnly ==
    [][(last'.op = "undo_issue_fix" /\ issues[last'.issue].is_resolved) =>
          /\ last'.err = ""
          /\ ~issues'[last'.issue].is_resolved
          /\ issues'[last'.issue].resolution_method = NoMethod
          /\ issues'[last'.issue].resolution_data = None
          /\ \A j \in IssueIds \ {last'.issue} : issues'[j] = issues[j]
          /\ file' = file
          /\ df' = file
          /\ fix_history = <<>>
          /\ last'.result.success
          /\ last'.result.note = UndoNote]_vars

\* C8 witness: a manual fix has been undone: the issue is unresolved with no
\* method and no data, and the stored table still holds the value entered.
C8_Witness ==
    /\ last.op = "undo_issue_fix"
    /\ last.err = ""
    /\ last.result.note = UndoNote
    /\ ~issues[last.issue].is_resolved
    /\ issues[last.issue].resolution_data = None
    /\ file.data[0]["SSN"] = Str(SsnEntered)

\* C9: every fix attempt made through apply_fix, whether it succeeds or
\* fails, appends exactly one FixRecord of that issue to the audit trail, and
\* no operation modifies or removes a FixRecord.
C9_OneFixRecordPerAttempt ==
    [][/\ SubSeq(fix_history', 1, Len(fix_history)) = fix_history
       /\ last'.op = "apply_issue_fix" =>
              /\ Len(fix_history') = Len(fix_history) + 1
              /\ fix_history'[Len(fix_history')].issue_id = last'.issue
       /\ last'.op # "apply_issue_fix" => fix_history' = fix_history]_vars

\* C10: manual_entry never writes a value that validate_fix_data rejects:
\* when validate_fix_data(issue, fix_data) says valid = false,
\* apply_fix(issue, manual_entry, fix_data) fails and leaves the table as it
\* was.
C10_ManualEntryChecksFixData ==
    [][\A i \in IssueIds, fix_data \in FixDataDicts :
          (/\ ApplyIssueFix(i, "manual_entry", fix_data)
           /\ ~ValidateFixData(issues[i], fix_data).valid)
              => /\ last'.err # ""
                 /\ df' = file
                 /\ file' = file]_vars

\* The issue passes the filter of apply_all_auto_fixes.
PassesFilter(issue) == issue.auto_fixable /\ ~issue.is_resolved

\* The positions of the results that carry the issue id.
ResultsOf(results, id) == {k \in 1..Len(results) : results[k].issue_id = id}

C12_OnePersistenceCommit ==
    [][(last'.op = "apply_all_auto_fixes" /\ "results" \in DOMAIN last'.result) =>
          /\ last'.result.saves = 1
          /\ last'.result.commits = 1
          /\ \A k \in 1..Len(last'.result.results) :
                 ~last'.result.results[k].saved]_vars

\* The ids of the unresolved issues of the category.
InCategory(category) ==
    {i \in IssueIds : issues[i].category = category /\ ~issues[i].is_resolved}

\* The ids of ids, in their order, of the issues that are auto-fixable.
RECURSIVE AutoFixableOf(_)
AutoFixableOf(ids) ==
    IF ids = <<>> THEN <<>>
    ELSE (IF issues[Head(ids)].auto_fixable THEN <<Head(ids)>> ELSE <<>>)
             \o AutoFixableOf(Tail(ids))

\* What C13 says of a run of apply_category_fixes that has just ended, scope
\* being the ids of the unresolved issues of the category and alone the
\* outcome of the same loop over the auto-fixable ones of them alone.
CategoryReport(scope, alone) ==
    /\ last'.err = ""
    /\ last'.result.of = Cardinality(scope)
    /\ Len(last'.result.results) = Cardinality(scope)
    /\ df' = alone.df
    /\ file' = IF last'.result.applied > 0 THEN alone.df ELSE alone.file
    /\ \A i \in IssueIds :
           IF i \in scope
           THEN /\ Cardinality(ResultsOf(last'.result.results, i)) = 1
                /\ \A k \in ResultsOf(last'.result.results, i) :
                       IF issues[i].auto_fixable
                       THEN issues'[i].is_resolved = last'.result.results[k].success
                       ELSE /\ ~last'.result.results[k].success
                            /\ last'.result.results[k].error =
                                   "Issue requires manual fix"
                            /\ issues'[i] = issues[i]
           ELSE /\ ResultsOf(last'.result.results, i) = {}
                /\ issues'[i] = issues[i]

\* C13: apply_category_fixes considers only the unresolved issues of the
\* category; each of them that is not auto-fixable gets a failed item with
\* the error 'Issue requires manual fix', stays as it was and leaves the table
\* as the run over the other issues alone makes it, and every other issue of
\* the category has its own result.
C13_CategoryReportsManualFixes ==
    [][last'.op = "apply_category_fixes" =>
          IF InCategory(last'.result.category) = {}
          THEN /\ last'.result.applied = 0
               /\ issues' = issues
               /\ file' = file
          ELSE CategoryReport(
                   InCategory(last'.result.category),
                   BulkLoop(Bulk(file, file, issues, <<>>),
                            AutoFixableOf(CategoryIssues(issues,
                                                         last'.result.category, 1))))
      ]_vars

\* C13 witness: a run over three issues of one category has reported the
\* second one as requiring a manual fix and fixed the first and the third.
C13_Witness ==
    /\ last.op = "apply_category_fixes"
    /\ "results" \in DOMAIN last.result
    /\ Len(last.result.results) = 3
    /\ last.result.results[1].success
    /\ last.result.results[2].error = "Issue requires manual fix"
    /\ last.result.results[3].success
    /\ ~issues[2].is_resolved
    /\ issues[1].is_resolved /\ issues[3].is_resolved

\* The request that has just ended repeats the one before it: the same fix
\* action on the same issue, the earlier one having succeeded.
Repeated(action_type) ==
    /\ last.op = "apply_issue_fix" /\ last.err = ""
    /\ last.action_type = action_type
    /\ last'.op = "apply_issue_fix"
    /\ last'.action_type = action_type
    /\ last'.issue = last.issue

\* C14: accept and exclude are idempotent on data: applied to an issue a
\* second time, each leaves every cell of the table as the first application
\* left it, and accept changes no cell at all.
C14_AcceptExcludeIdempotent ==
    [][/\ (Repeated("exclude") \/ Repeated("accept")) => file' = file /\ last'.err = ""
       /\ (last'.op = "apply_issue_fix" /\ last'.action_type = "accept") =>
              file' = file /\ df' = file]_vars

\* C14 witness: an issue has been excluded, its rows are flagged, and
\* excluding it again gives the table that is there.
C14_Witness ==
    /\ last.op = "apply_issue_fix" /\ last.err = ""
    /\ last.action_type = "exclude"
    /\ "exclude_from_testing" \in file.columns
    /\ file.data[0]["exclude_from_testing"] = Bool(TRUE)
    /\ ApplyFix(file, file, issues[last.issue], "exclude", None).err = ""
    /\ ApplyFix(file, file, issues[last.issue], "exclude", None).file = file

\* The exclusion flag of a row of table t, false where t has no exclusion
\* column.
Flag(t, row) ==
    IF "exclude_from_testing" \in t.columns
    THEN t.data[row]["exclude_from_testing"]
    ELSE Bool(FALSE)

\* C15: a successful exclude changes nothing but the exclusion flag: the
\* table keeps its rows in their order and the values of its columns, the
\* exclusion column is there and true on every affected row that is a row of
\* the table, and the flag of every other row is what it was, false if the
\* column has just been created.
C15_ExcludeOnlySetsFlag ==
    [][(/\ last'.op = "apply_issue_fix" /\ last'.action_type = "exclude"
        /\ last'.err = "") =>
          /\ DOMAIN file'.data = DOMAIN file.data
          /\ file'.columns = file.columns \cup {"exclude_from_testing"}
          /\ \A r \in DOMAIN file.data :
                 /\ \A c \in file.columns \ {"exclude_from_testing"} :
                        file'.data[r][c] = file.data[r][c]
                 /\ file'.data[r]["exclude_from_testing"] =
                        IF r \in Range(issues[last'.issue].affected_rows)
                        THEN Bool(TRUE)
                        ELSE Flag(file, r)]_vars

\* C15 witness: row 0 was flagged by an earlier exclusion, and the exclusion
\* of an issue on row 1 and on a row the table does not have has flagged
\* row 1 and kept the flag of row 0.
C15_Witness ==
    /\ last.op = "apply_issue_fix" /\ last.action_type = "exclude" /\ last.err = ""
    /\ issues[last.issue].affected_rows = <<1, 2>>
    /\ LenDf(file) = 2
    /\ file.data[0]["exclude_from_testing"] = Bool(TRUE)
    /\ file.data[1]["exclude_from_testing"] = Bool(TRUE)

NumericFixed(t) == t.data[0]["PriorYearComp"] = Num(CleanNumeric(CompDollars).value)

\* The SSN format fix has been applied to row 0 of the table.
SsnFixed(t) == t.data[0]["SSN"] = Str(StandardizeSsn(SsnSpaced).value)

\* C17: write access to the table of a file is exclusive: two fix requests
\* never have their load, mutate and save steps interleaved, and once both
\* have completed the stored table holds the changes of both.
C17_SingleWriter ==
    /\ Cardinality({w \in Workers : engines[w].pc # "idle"}) <= 1
    /\ (/\ \A w \in Workers : engines[w].pc = "idle"
        /\ \A i \in IssueIds : issues[i].is_resolved
        /\ \E i \in IssueIds : issues[i] = BulkResolved(SsnFormatIssue)
        /\ \E i \in IssueIds : issues[i] = BulkResolved(NumericFormatIssue))
           => (SsnFixed(file) /\ NumericFixed(file))

\* The lost update alone: both requests have completed, each has resolved its
\* issue, and the stored table holds the changes of both.
C17_NoLostUpdate ==
    (/\ \A w \in Workers : engines[w].pc = "idle"
     /\ \E i \in IssueIds : issues[i] = BulkResolved(SsnFormatIssue)
     /\ \E i \in IssueIds : issues[i] = BulkResolved(NumericFormatIssue))
        => (SsnFixed(file) /\ NumericFixed(file))

\* C18: a validation request whose save succeeds leaves as the stored issues
\* of the file exactly the issues its run found, none of the rows stored
\* before surviving; a validation request that fails leaves the stored issues
\* as they were.
C18_SaveReplacesWholesale ==
    [][last'.op = "run_data_validation" =>
          IF last'.err = ""
          THEN issues' = RunComprehensiveValidation(file).issues
          ELSE issues' = issues]_vars

\* A run has replaced stored rows: the rows of the file are those of the run,
\* and the row of the earlier run is not among them.
C18_Witness ==
    /\ last.op = "run_data_validation" /\ last.err = ""
    /\ issues # <<>>
    /\ issues = RunComprehensiveValidation(file).issues
    /\ EarlierIssue \notin Range(issues)

\* C19: no validation request fails because the run of the detectors raised:
\* a request either succeeds or fails in saving.
C19_RunNeverAborts ==
    last.op = "run_data_validation" => last.err \in {"", "OperationalError"}

\* C20: a DOB cell that a successful automatic fix rewrote is not flagged by
\* the date format detector.
C20_DateFixCanonical ==
    [][(/\ last'.op = "apply_issue_fix" /\ last'.action_type = "auto_fix"
        /\ last'.err = ""
        /\ "DOB" \in file.columns)
       => \A r \in DOMAIN file.data :
              file'.data[r]["DOB"] # file.data[r]["DOB"]
                  => ~InvalidDate(file'.data[r]["DOB"])]_vars

\* The fixer that the title of a format issue names.
FixerOf(issue) ==
    IF TitleHas(issue.title, "date") THEN "date"
    ELSE IF TitleHas(issue.title, "ssn") THEN "ssn"
    ELSE "numeric"

\* The columns the fixer goes through.
FixerColumns(kind) ==
    IF kind = "date" THEN Range(DateColumns)
    ELSE IF kind = "ssn" THEN Range(SsnColumns)
    ELSE Range(NumericColumns)

\* The standardizer of the fixer gives a value for the cell, another one than
\* the cell has.
Transformable(kind, cell) ==
    /\ ~IsNa(cell)
    /\ Standardized(kind, cell).ok
    /\ Standardized(kind, cell).cell # cell

\* An issue as a detector produced it and save_validation_results stored it.
StoredByRun(issue) ==
    /\ issue.details = "dict"
    /\ issue.category \in {"missing_data", "format_error", "logic_error",
                           "compliance_error", "anomaly"}

\* C21: auto_fix on an auto-fixable format issue that a validation run stored
\* does not raise, and rewrites every cell of the affected rows that the
\* standardizer of its fixer can transform.
C21_AutoFixStoredIssue ==
    [][(/\ last'.op = "apply_issue_fix" /\ last'.action_type = "auto_fix"
        /\ StoredByRun(issues[last'.issue])
        /\ issues[last'.issue].category = "format_error"
        /\ issues[last'.issue].auto_fixable)
       => /\ last'.err = ""
          /\ \A k \in 1..Len(issues[last'.issue].affected_rows) :
               \A c \in FixerColumns(FixerOf(issues[last'.issue])) \cap file.columns :
                  Transformable(FixerOf(issues[last'.issue]),
                                file.data[issues[last'.issue].affected_rows[k]][c])
                      => file'.data[issues[last'.issue].affected_rows[k]][c]
                             # file.data[issues[last'.issue].affected_rows[k]][c]]_vars

IsDigit(c) == c \in Digits

\* The digits of a string, in their order.
DigitsOf(s) == SelectSeq(s, IsDigit)

\* Nine digits written as XXX-XX-XXXX.
Hyphenated(d) ==
    <<d[1], d[2], d[3], "-", d[4], d[5], "-", d[6], d[7], d[8], d[9]>>

\* What the SSN fix has to make of a cell.
SsnRule(before, after) ==
    IF IsNa(before)
    THEN after = before
    ELSE IF Len(DigitsOf(StrOf(before))) = 9
    THEN after = Str(Hyphenated(DigitsOf(StrOf(before))))
    ELSE after = before

\* The cell is one that _validate_ssn_format puts on the issue.
FlaggedSsn(cell) == ~IsNa(cell) /\ ~SsnPatternMatches(Strip(StrOf(cell)))

\* C22: the SSN auto-fix, of the fix engine and of the whole-file fix, writes
\* the nine digits of an affected cell as XXX-XX-XXXX, leaves a cell without
\* exactly nine digits as it was, and reports exactly the cells it changed.
C22_SsnFixRule ==
    [][/\ (/\ last'.op = "apply_issue_fix" /\ last'.action_type = "auto_fix"
           /\ last'.err = ""
           /\ issues[last'.issue].category = "Format Error"
           /\ issues[last'.issue].title = "Invalid SSN Format"
           /\ "SSN" \in file.columns)
          => \A r \in DOMAIN file.data :
                /\ IF r \in Range(issues[last'.issue].affected_rows)
                   THEN SsnRule(file.data[r]["SSN"], file'.data[r]["SSN"])
                   ELSE file'.data[r]["SSN"] = file.data[r]["SSN"]
                /\ file'.data[r]["SSN"] # file.data[r]["SSN"]
                     <=> \E k \in 1..Len(last'.result.details) :
                            /\ last'.result.details[k].row = r
                            /\ last'.result.details[k].column = "SSN"
       /\ (/\ last'.op = "auto_fix_issues" /\ last'.err = ""
           /\ "SSN" \in file.columns)
          => \A r \in DOMAIN file.data :
                IF FlaggedSsn(file.data[r]["SSN"])
                THEN SsnRule(file.data[r]["SSN"], file'.data[r]["SSN"])
                ELSE file'.data[r]["SSN"] = file.data[r]["SSN"]]_vars

\* The fix engine has rewritten "123 45 6789" and left "12345".
C22_Witness ==
    /\ last.op = "apply_issue_fix" /\ last.action_type = "auto_fix" /\ last.err = ""
    /\ last.result.changes_applied = 1
    /\ file.data[0]["SSN"] = Str(Hyphenated(DigitsOf(SsnSpaced)))
    /\ file.data[1]["SSN"] = Str(SsnShort)

\* The string is XXX-XX-XXXX, and its digits are not all zeros or all nines.
WellFormedSsn(s) ==
    /\ Len(s) = 11
    /\ \A i \in {1, 2, 3, 5, 6, 8, 9, 10, 11} : s[i] \in Digits
    /\ s[4] = "-" /\ s[7] = "-"
    /\ DigitsOf(s) \notin {DigitsOf(SsnZeros), DigitsOf(SsnNines)}

\* C23: validate_fix_data answers valid = false for a request with an SSN
\* entry that is not XXX-XX-XXXX or has only zeros or only nines.
C23_InvalidSsnRejected ==
    (/\ last.op = "validate_fix_data"
     /\ \E k \in 1..Len(fix_request.ssn_fixes) :
           ~WellFormedSsn(fix_request.ssn_fixes[k].ssn))
    => ~last.result.valid

\* C23, second part: validating a request changes neither the table nor the
\* issues.
C23_ValidationChangesNothing ==
    [][last'.op = "validate_fix_data" /\ last' # last
          => file' = file /\ issues' = issues]_vars

\* The types and confidences of the suggestions made for an issue.
Offered(suggestions) == {suggestions[k] : k \in DOMAIN suggestions}

\* C24: the suggestions for an issue contain an auto_fix suggestion exactly
\* when the issue is auto-fixable, with the confidence of the issue; for an
\* issue of the missing-data category as a validation run stores it they also
\* contain manual_entry (1.0), exclude (0.8) and generate_test (0.6), and for
\* an issue of the anomaly category accept (0.7) and manual_entry (0.9).
C24_SuggestionsByCategory ==
    [][last'.op = "get_fix_suggestions" =>
          /\ (\E s \in Offered(last'.result.suggestions) : s.type = "auto_fix")
                 <=> issues[last'.issue].auto_fixable
          /\ \A s \in Offered(last'.result.suggestions) :
                 s.type = "auto_fix" => s.confidence = "issue.confidence_score"
          /\ (StoredByRun(issues[last'.issue])
              /\ issues[last'.issue].category = "missing_data")
                 => {Suggestion("manual_entry", "1.0"), Suggestion("exclude", "0.8"),
                     Suggestion("generate_test", "0.6")}
                        \subseteq Offered(last'.result.suggestions)
          /\ (StoredByRun(issues[last'.issue])
              /\ issues[last'.issue].category = "anomaly")
                 => {Suggestion("accept", "0.7"), Suggestion("manual_entry", "0.9")}
                        \subseteq Offered(last'.result.suggestions)]_vars

\* The part of C24 about auto_fix alone, which the code keeps.
C24_AutoFixSuggested ==
    [][last'.op = "get_fix_suggestions" =>
          /\ (\E s \in Offered(last'.result.suggestions) : s.type = "auto_fix")
                 <=> issues[last'.issue].auto_fixable
          /\ \A s \in Offered(last'.result.suggestions) :
                 s.type = "auto_fix" => s.confidence = "issue.confidence_score"]_vars

\* The stored issues of the file about a mass termination.
MassTerminationIssues ==
    {k \in DOMAIN issues : issues[k].title = "Mass Termination Event"}

\* The termination dates of the file, and the rows that hold a date.
TerminationDates == {file.data[r]["DOT"] : r \in DOMAIN file.data} \ {Null}
RowsHolding(date) == {r \in DOMAIN file.data : file.data[r]["DOT"] = date}

C25_WitnessTwoDates ==
    /\ last.op = "run_data_validation"
    /\ last.err = ""
    /\ Cardinality(MassTerminationIssues) = 2

\* C26: every issue that a validation run produced and stored has
\* affected_employees equal to the number of distinct rows of its
\* affected_rows, whenever it lists affected rows.
C26_AffectedEmployeesCount ==
    (last.op = "run_data_validation" /\ last.err = "") =>
        \A k \in DOMAIN issues :
            issues[k].affected_rows # <<>> =>
                issues[k].affected_employees
                    = Cardinality(Range(issues[k].affected_rows))

\* C26 witness: a run has stored a mass-termination issue of ten or more
\* employees next to an issue about the rows without a termination date.
C26_Witness ==
    /\ last.op = "run_data_validation"
    /\ last.err = ""
    /\ \E k \in DOMAIN issues :
          /\ issues[k].title = "Mass Termination Event"
          /\ issues[k].affected_employees >= 10
          /\ issues[k].affected_employees = Len(issues[k].affected_rows)
    /\ \E k \in DOMAIN issues :
          /\ issues[k].title # "Mass Termination Event"
          /\ issues[k].affected_rows # <<>>
          /\ issues[k].affected_employees = Len(issues[k].affected_rows)

\* The issues of a list that are not resolved.
StillOpen(iss) == SelectSeq(iss, LAMBDA issue : ~issue.is_resolved)

\* C27: the overall score that the deferred recomputation stores after a fix
\* is the score that the deduction policy of the validation run gives for
\* the current issues of the file (counted with or without the resolved ones).
C27_RecomputedScoreIsScorerScore ==
    [][("recalculate_quality_score" \in background_tasks
        /\ "recalculate_quality_score" \notin background_tasks'
        /\ quality_score' # quality_score)
       => quality_score'.overall_score
              \in {CalculateDataQualityScore(issues'),
                   CalculateDataQualityScore(StillOpen(issues'))}]_vars

\* C28: whatever fixes, status updates, undos and whole-file auto-fixes have
\* been served, every stored issue is marked resolved exactly if a resolution
\* method is recorded for it.
C28_ResolvedIffMethodRecorded ==
    \A k \in DOMAIN issues :
        issues[k].is_resolved <=> issues[k].resolution_method # NoMethod

\* The part of C28 that the single requests keep: they never leave a method
\* recorded on an issue that is not resolved.
C28_MethodOnlyIfResolved ==
    \A k \in DOMAIN issues :
        issues[k].resolution_method # NoMethod => issues[k].is_resolved

\* The file has no unresolved issue of kind critical.
NoUnresolvedCritical(iss) ==
    \A k \in DOMAIN iss : iss[k].issue_type = "critical" => iss[k].is_resolved

\* C29: after any fixes, undos and status updates, the fix-progress report
\* and the compliance-readiness report say that the file can proceed to
\* compliance testing exactly if no critical issue of the file is unresolved;
\* right after the undo of the fix of a critical issue both say that it
\* cannot.
C29_ReadyIffNoUnresolvedCritical ==
    [][/\ last'.op = "get_fix_progress" =>
             (last'.result.can_proceed_to_compliance <=> NoUnresolvedCritical(issues'))
       /\ last'.op = "check_compliance_readiness" =>
             (last'.result.ready_for_compliance <=> NoUnresolvedCritical(issues'))
       /\ (/\ last'.op = "undo_issue_fix"
           /\ last'.err = ""
           /\ issues[last'.issue].issue_type = "critical") =>
             /\ ~FixProgress(issues').can_proceed_to_compliance
             /\ ~Readiness(issues').ready_for_compliance]_vars

\* C29 witness: the SSN issue of the file was fixed, so the stored table has
\* changed, and is unresolved again; the readiness report says that the file
\* is not ready and counts the critical issue.
C29_Witness ==
    /\ last.op = "check_compliance_readiness"
    /\ ~last.result.ready_for_compliance
    /\ last.result.critical_issues_remaining >= 1
    /\ file \notin InitTables
    /\ issues[1].issue_type = "critical"
    /\ ~issues[1].is_resolved

\* The reports also say that a file can proceed: every critical issue of the
\* file is resolved, a warning is still open.
C29_WitnessReady ==
    /\ last.op = "get_fix_progress"
    /\ last.result.can_proceed_to_compliance
    /\ last.result.unresolved_issues >= 1
    /\ \E k \in DOMAIN issues : issues[k].issue_type = "critical"

\* The undo of the fix of a critical issue has just been made.
C29_WitnessUndo ==
    /\ last.op = "undo_issue_fix"
    /\ last.err = ""
    /\ issues[last.issue].issue_type = "critical"
    /\ ~Readiness(issues).ready_for_compliance

\* C30: undo of an issue that is not resolved is refused with an error; the
\* resolution fields of the issue, the other issues, the stored table and the
\* audit trail stay as they are, and nothing is committed or scheduled.
C30_UndoOfUnresolvedRejected ==
    [][(last'.op = "undo_issue_fix" /\ ~issues[last'.issue].is_resolved) =>
          /\ last'.err = "ValueError: Issue is not resolved, cannot undo"
          /\ last'.result = None
          /\ issues' = issues
          /\ file' = file
          /\ fix_history' = fix_history
          /\ quality_score' = quality_score
          /\ background_tasks' = background_tasks]_vars

\* C30 witness: the undo of an issue that was not resolved has been refused,
\* and the issue has neither a method nor data recorded.
C30_Witness ==
    /\ last.op = "undo_issue_fix"
    /\ last.err = "ValueError: Issue is not resolved, cannot undo"
    /\ ~issues[last.issue].is_resolved
    /\ issues[last.issue].resolution_method = NoMethod
    /\ issues[last.issue].resolution_data = None

====
